---- MODULE Spec2Model ----
(***************************************************************************)
(* Persistent library state manager of the Medical Library Manager:        *)
(* services/db (IndexedDB primary store plus two localStorage backup       *)
(* namespaces), services/fileHandleManager (permission check, directory    *)
(* scan, handle restore, reconnect) and the App component's handlers       *)
(* (startup load, add, reconnect, delete, reset).                          *)
(***************************************************************************)
EXTENDS Integers, Sequences, FiniteSets, TLC

\* ------------------------------------------------------------------ bounds
MaxIds == 2          \* libraries ever created (crypto.randomUUID values)
MaxOps == 3          \* user actions in one run (add, reconnect, delete, reset, reload, ...)
MaxCallers == 2     \* concurrent callers of openDB()
MaxBackends == 2     \* storage backends that are available to HybridStorageManager
MaxFaults == 1       \* storage operations that fail in one run

\* const DB_VERSION = 3
DB_VERSION == 3

\* ------------------------------------------------------------- JS values
Null == "null"       \* JS null: a cleared handle
Absent == "absent"   \* JS undefined: a key the object does not have
TS == "ts"           \* a value of new Date().toISOString()

\* Directories the host can hand out (showDirectoryPicker results).
\* d1 and d3 are two folders that are both named docs.
Dirs == {"d1", "d2", "d3"}
DirName(d) == IF d \in {"d1", "d3"} THEN "docs" ELSE "notes"

\* ---------------------------------------------------------- file entries
PdfA == "a.pdf"
PdfB == "B.PDF"
TxtC == "c.txt"
PdfU == "u.pdf"
SubD == "sub.pdf"

\* A comparison that leaves the case of the name as it is.
ToLowerCaseSkipped(name) == name

\* String.prototype.toLowerCase on the names of the model.
ToLowerCase(name) == IF name = PdfB THEN "b.pdf" ELSE name

\* String.prototype.endsWith('.pdf') on the lower-cased names of the model.
EndsWithPdf(lower) == lower \in {"a.pdf", "b.pdf", "u.pdf", "sub.pdf"}

\* file.size as the host reports it.
SizeOf(name) == IF name = PdfB THEN 2 ELSE 1

\* One entry of directoryHandle.values(): readable tells whether getFile() resolves.
Entry(n, k, r) == [name |-> n, kind |-> k, readable |-> r]

\* Directory listings the host may produce; failAt = k > 0 makes the async
\* iterator throw when the k-th entry is fetched.
Listings ==
  { [entries |-> << >>, failAt |-> 0],
    [entries |-> << Entry(PdfA, "file", TRUE) >>, failAt |-> 0],
    [entries |-> << Entry(PdfA, "file", TRUE), Entry(PdfU, "file", FALSE),
                    Entry(TxtC, "file", TRUE), Entry(SubD, "directory", TRUE),
                    Entry(PdfB, "file", TRUE) >>, failAt |-> 0],
    [entries |-> << Entry(PdfA, "file", TRUE) >>, failAt |-> 1] }

\* A LibraryFile as scanDirectory pushes it.
LibraryFile(n) == [name |-> n, handle |-> "fh", size |-> SizeOf(n), lastModified |-> TS]

RECURSIVE ScanFrom(_, _, _)
ScanFrom(listing, k, files) ==
  IF k > Len(listing.entries) \/ listing.failAt = k
  THEN files
  ELSE LET e == listing.entries[k] IN
       IF e.kind = "file" /\ EndsWithPdf(ToLowerCase(e.name)) /\ e.readable
       THEN ScanFrom(listing, k + 1, Append(files, LibraryFile(e.name)))
       ELSE ScanFrom(listing, k + 1, files)

\* scanDirectory: the PDF files of a directory, in enumeration order.
ScanDirectory(listing) == ScanFrom(listing, 1, << >>)

\* Whether the directory iteration throws (caught inside scanDirectory).
ScanThrows(listing) == listing.failAt > 0

\* ------------------------------------------------------- objects and maps
\* Object spread {...base, ...upd}: keys of upd win, the other keys of base stay.
Spread(base, upd) ==
  [f \in DOMAIN base \cup DOMAIN upd |-> IF f \in DOMAIN upd THEN upd[f] ELSE base[f]]

\* obj[key] = value on a keyed object (a store, localStorage JSON, a Map).
Put(obj, key, value) ==
  [k \in DOMAIN obj \cup {key} |-> IF k = key THEN value ELSE obj[k]]

\* delete obj[key]
Remove(obj, key) == [k \in DOMAIN obj \ {key} |-> obj[k]]

\* An object without keys: '{}' parsed, an empty store, an empty Map.
EmptyObject == << >>

RECURSIVE ValuesFrom(_, _)
ValuesFrom(obj, k) ==
  IF k > MaxIds THEN << >>
  ELSE IF k \in DOMAIN obj THEN << obj[k] >> \o ValuesFrom(obj, k + 1)
       ELSE ValuesFrom(obj, k + 1)

\* store.getAll() / Object.values(obj): the records in key order.
Values(obj) == ValuesFrom(obj, 1)

\* What JSON.stringify leaves of a live handle object.
EmptyObj == "{}"

JsonHandle(h) == IF h \in {Null, Absent} THEN h ELSE EmptyObj

JsonFile(file) ==
  IF "handle" \in DOMAIN file THEN [file EXCEPT !.handle = JsonHandle(@)] ELSE file

\* JSON.parse(JSON.stringify(library)): live handles do not survive.
JsonRoundTrip(library) ==
  [library EXCEPT !.directoryHandle = JsonHandle(@),
                  !.files = [i \in DOMAIN @ |-> JsonFile(@[i])]]

\* A record carries a capability reference: a directory or file handle, or its residue.
HasCapabilityRef(library) ==
  \/ library.directoryHandle # Null
  \/ \E i \in DOMAIN library.files :
       "handle" \in DOMAIN library.files[i] /\ library.files[i].handle # Null

\* --------------------------------------------------------------- db: save
RECURSIVE SumSizes(_)
SumSizes(files) ==
  IF files = << >> THEN 0 ELSE Head(files).size + SumSizes(Tail(files))

\* library.metadata?.persistence?.saveCount || 0
SaveCountOf(library) ==
  IF "persistence" \in DOMAIN library.metadata
     /\ "saveCount" \in DOMAIN library.metadata.persistence
  THEN library.metadata.persistence.saveCount
  ELSE 0

\* saveLibrary: the record it builds from its argument.
EnhancedLibrary(library) ==
  Spread(library,
    [createdAt |-> IF "createdAt" \in DOMAIN library THEN library.createdAt ELSE TS,
     lastAccessed |-> TS,
     metadata |-> Spread(library.metadata,
       [fileCount |-> Len(library.files),
        totalSize |-> SumSizes(library.files),
        lastModified |-> TS,
        persistence |-> [lastSaved |-> TS,
                         saveCount |-> SaveCountOf(library) + 1,
                         backupCreated |-> TRUE,
                         localStorageBackup |-> TRUE,
                         indexedDBBackup |-> TRUE]])])

\* createEnhancedBackup: the record written under PERSISTENCE_KEY.
BackupData(library) ==
  JsonRoundTrip(Spread(library,
    [files |-> [i \in DOMAIN library.files |->
                  [name |-> library.files[i].name,
                   size |-> library.files[i].size,
                   lastModified |-> library.files[i].lastModified,
                   handle |-> Null]],
     directoryHandle |-> Null,
     metadata |-> Spread(library.metadata, [backupCreated |-> TS, backupVersion |-> "2.0"])]))

\* createBackup without its directoryHandle: null line.
LegacyBackupDataKeepingHandle(library) ==
  JsonRoundTrip(Spread(library,
    [files |-> [i \in DOMAIN library.files |->
                  [name |-> library.files[i].name,
                   size |-> library.files[i].size,
                   lastModified |-> library.files[i].lastModified]]]))

\* createBackup: the record written under BACKUP_KEY.
LegacyBackupData(library) ==
  JsonRoundTrip(Spread(library,
    [files |-> [i \in DOMAIN library.files |->
                  [name |-> library.files[i].name,
                   size |-> library.files[i].size,
                   lastModified |-> library.files[i].lastModified]],
     directoryHandle |-> Null]))

\* createBackup that leaves the legacy namespace as it is.
CreateBackupSkipped(leg, library, lOk) ==
  [leg |-> leg, logs |-> {}, threw |-> FALSE]

\* createBackup: writes the legacy namespace; a localStorage failure is caught and logged.
CreateBackup(leg, library, lOk) ==
  IF lOk
  THEN [leg |-> Put(leg, library.id, LegacyBackupData(library)), logs |-> {}, threw |-> FALSE]
  ELSE [leg |-> leg, logs |-> {"Failed to create backup"}, threw |-> FALSE]

\* createEnhancedBackup with a catch block that throws the error on.
CreateEnhancedBackupRethrowing(enh, leg, library, eOk, lOk) ==
  IF eOk
  THEN LET b == CreateBackup(leg, library, lOk) IN
       [enh |-> Put(enh, library.id, BackupData(library)), leg |-> b.leg,
        logs |-> b.logs, threw |-> FALSE]
  ELSE [enh |-> enh, leg |-> leg, logs |-> {"Failed to create enhanced backup"},
        threw |-> TRUE]

\* createEnhancedBackup: writes the enhanced namespace, then calls createBackup,
\* all inside one try block whose catch logs.
CreateEnhancedBackup(enh, leg, library, eOk, lOk) ==
  IF eOk
  THEN LET b == CreateBackup(leg, library, lOk) IN
       [enh |-> Put(enh, library.id, BackupData(library)), leg |-> b.leg,
        logs |-> b.logs, threw |-> FALSE]
  ELSE [enh |-> enh, leg |-> leg, logs |-> {"Failed to create enhanced backup"},
        threw |-> FALSE]

\* The IndexedDB part of saveLibrary without the inner try: a failed put rejects.
PrimaryPutRejecting(idb, record, pOk) ==
  IF pOk
  THEN [idb |-> Put(idb, record.id, record), logs |-> {}, threw |-> FALSE]
  ELSE [idb |-> idb, logs |-> {}, threw |-> TRUE]

\* The IndexedDB part of saveLibrary: openDB and store.put inside the inner try,
\* whose catch warns and continues.
PrimaryPut(idb, record, pOk) ==
  IF pOk
  THEN [idb |-> Put(idb, record.id, record), logs |-> {}, threw |-> FALSE]
  ELSE [idb |-> idb, logs |-> {"IndexedDB save failed, using localStorage only"},
        threw |-> FALSE]

\* saveLibrary(library) on the stores st = [idb, enh, leg]; pOk, eOk, lOk tell
\* whether the IndexedDB write and the two localStorage writes go through.
SaveLibrary(library, st, pOk, eOk, lOk) ==
  LET e == EnhancedLibrary(library)
      b == CreateEnhancedBackup(st.enh, st.leg, e, eOk, lOk)
      p == PrimaryPut(st.idb, e, pOk)
  IN IF b.threw
     THEN [idb |-> st.idb, enh |-> b.enh, leg |-> b.leg, result |-> "throw", logs |-> b.logs]
     ELSE IF p.threw
     THEN [idb |-> p.idb, enh |-> b.enh, leg |-> b.leg, result |-> "throw",
           logs |-> b.logs \cup p.logs]
     ELSE [idb |-> p.idb, enh |-> b.enh, leg |-> b.leg, result |-> "ok",
           logs |-> b.logs \cup p.logs]

\* ---------------------------------------------------------------- db: load
\* request.onsuccess of getAll: every record gets a fresh lastAccessed.
Touch(records) == [i \in DOMAIN records |-> Spread(records[i], [lastAccessed |-> TS])]

\* getEnhancedBackupLibraries
GetEnhancedBackupLibraries(enh, eOk) ==
  IF eOk
  THEN LET v == Values(enh) IN
       [i \in DOMAIN v |->
          Spread(v[i], [files |-> v[i].files,
                        directoryHandle |-> Null,
                        metadata |-> Spread(v[i].metadata,
                                       [needsReconnection |-> TRUE,
                                        restoredFromBackup |-> TRUE,
                                        backupRestored |-> TS])])]
  ELSE << >>

\* getBackupLibraries
GetBackupLibraries(leg, lOk) ==
  IF lOk
  THEN LET v == Values(leg) IN
       [i \in DOMAIN v |->
          Spread(v[i], [files |-> v[i].files,
                        directoryHandle |-> Null,
                        metadata |-> Spread(v[i].metadata,
                                       [needsReconnection |-> TRUE,
                                        restoredFromLegacyBackup |-> TRUE])])]
  ELSE << >>

\* getLibraries() without its fallback layers: whatever IndexedDB answered.
GetLibrariesPrimaryOnly(st, pOk, eOk, lOk) ==
  [libraries |-> IF pOk THEN Touch(Values(st.idb)) ELSE << >>, source |-> "indexedDB",
   threw |-> FALSE]

\* getLibraries() passing the failure of IndexedDB on to its caller.
GetLibrariesSignalling(st, pOk, eOk, lOk) ==
  [libraries |-> IF pOk THEN Touch(Values(st.idb)) ELSE << >>, source |-> "indexedDB",
   threw |-> ~pOk]

\* getLibraries() reading the shadow id by id: the enhanced entry of an id if there
\* is one, else its legacy entry.
GetLibrariesPerId(st, pOk, eOk, lOk) ==
  LET primary == IF pOk THEN Touch(Values(st.idb)) ELSE << >>
      enhanced == GetEnhancedBackupLibraries(st.enh, eOk)
      legacy == GetBackupLibraries(st.leg, lOk)
      OnlyLegacy(lib) == ~eOk \/ lib.id \notin DOMAIN st.enh
  IN IF Len(primary) > 0 THEN [libraries |-> primary, source |-> "indexedDB", threw |-> FALSE]
     ELSE [libraries |-> enhanced \o SelectSeq(legacy, OnlyLegacy),
           source |-> IF Len(enhanced) > 0 THEN "enhanced" ELSE "legacy",
           threw |-> FALSE]

\* getLibraries(): IndexedDB if it answers with at least one record, else the
\* enhanced backup if it has one, else the legacy backup.
GetLibraries(st, pOk, eOk, lOk) ==
  LET primary == IF pOk THEN Touch(Values(st.idb)) ELSE << >>
      enhanced == GetEnhancedBackupLibraries(st.enh, eOk)
  IN IF Len(primary) > 0 THEN [libraries |-> primary, source |-> "indexedDB", threw |-> FALSE]
     ELSE IF Len(enhanced) > 0
     THEN [libraries |-> enhanced, source |-> "enhanced", threw |-> FALSE]
     ELSE [libraries |-> GetBackupLibraries(st.leg, lOk), source |-> "legacy",
           threw |-> FALSE]

\* -------------------------------------------------------------- db: delete
\* removeEnhancedBackupLibrary / removeBackupLibrary: failures are caught and logged.
RemoveBackup(backup, id, ok) == IF ok THEN Remove(backup, id) ELSE backup

\* deleteLibrary(id): both backups first, then IndexedDB inside a try that warns.
DeleteLibrary(id, st, pOk, eOk, lOk) ==
  [idb |-> IF pOk THEN Remove(st.idb, id) ELSE st.idb,
   enh |-> RemoveBackup(st.enh, id, eOk),
   leg |-> RemoveBackup(st.leg, id, lOk),
   result |-> "ok",
   logs |-> (IF pOk THEN {} ELSE {"IndexedDB delete failed, but backup cleanup completed"})
            \cup (IF eOk THEN {} ELSE {"Failed to remove enhanced backup"})
            \cup (IF lOk THEN {} ELSE {"Failed to remove backup"})]

\* ------------------------------------------------------ fileHandleManager
\* What queryPermission / requestPermission may answer.
QueryOutcomes == {"granted", "denied", "throws"}
\* requestPermission: "dismissed" is the prompt closed by the user without an
\* answer, which the host reports as 'prompt'.
RequestOutcomes == {"granted", "denied", "dismissed", "throws"}

\* cacheKey = `${directoryHandle.name}_${request}`
CacheKey(directoryHandle, request) == << DirName(directoryHandle), request >>

\* verifyPermission calling requestPermission whatever its request argument says.
VerifyPermissionAlwaysRequesting(cache, directoryHandle, request, q, r) ==
  LET key == << DirName(directoryHandle), request >> IN
  IF key \in DOMAIN cache
  THEN [granted |-> cache[key], cache |-> cache, prompted |-> FALSE, threw |-> FALSE]
  ELSE IF q = "throws"
  THEN [granted |-> FALSE, cache |-> Put(cache, key, FALSE), prompted |-> FALSE,
        threw |-> TRUE]
  ELSE IF q = "granted"
  THEN [granted |-> TRUE, cache |-> Put(cache, key, TRUE), prompted |-> FALSE,
        threw |-> FALSE]
  ELSE [granted |-> r = "granted", cache |-> Put(cache, key, r = "granted"),
        prompted |-> TRUE, threw |-> r = "throws"]

\* verifyPermission(directoryHandle, request) with the host answering q to
\* queryPermission and r to requestPermission. prompted: requestPermission was
\* invoked; threw: a host call threw (caught here, cached as false).
VerifyPermission(cache, directoryHandle, request, q, r) ==
  LET key == CacheKey(directoryHandle, request) IN
  IF key \in DOMAIN cache
  THEN [granted |-> cache[key], cache |-> cache, prompted |-> FALSE, threw |-> FALSE]
  ELSE IF q = "throws"
  THEN [granted |-> FALSE, cache |-> Put(cache, key, FALSE), prompted |-> FALSE,
        threw |-> TRUE]
  ELSE IF q = "granted"
  THEN [granted |-> TRUE, cache |-> Put(cache, key, TRUE), prompted |-> FALSE,
        threw |-> FALSE]
  ELSE IF request
  THEN [granted |-> r = "granted", cache |-> Put(cache, key, r = "granted"),
        prompted |-> TRUE, threw |-> r = "throws"]
  ELSE [granted |-> FALSE, cache |-> Put(cache, key, FALSE), prompted |-> FALSE,
        threw |-> FALSE]

\* storeDirectoryHandle: handle metadata under enhanced_file_handles and
\* file_handles_cache, in one try block; how = "ok", "failEnhanced" (the first
\* write throws) or "failLegacy" (the second write throws).
HandleData(directoryHandle) ==
  [name |-> DirName(directoryHandle), kind |-> "directory", lastAccessed |-> TS]

StoreDirectoryHandle(hs, libraryId, directoryHandle, how) ==
  [enhanced |-> IF how = "failEnhanced" THEN hs.enhanced
                ELSE Put(hs.enhanced, libraryId, HandleData(directoryHandle)),
   legacy |-> IF how = "ok" THEN Put(hs.legacy, libraryId, HandleData(directoryHandle))
              ELSE hs.legacy]

StoreOutcomes == {"ok", "failEnhanced", "failLegacy"}

\* updateHandleAccessCount on one of the two keys: stamps lastAccessed (the
\* accessCount it also increments is read by no operation and is left out).
BumpAccess(handles, libraryId) ==
  IF libraryId \in DOMAIN handles
  THEN [handles EXCEPT ![libraryId].lastAccessed = TS]
  ELSE handles

UpdateHandleAccessCount(hs, libraryId) ==
  [enhanced |-> BumpAccess(hs.enhanced, libraryId),
   legacy |-> BumpAccess(hs.legacy, libraryId)]

\* library.metadata?.restoreAttemptCount || 0
RestoreAttemptCountOf(library) ==
  IF "restoreAttemptCount" \in DOMAIN library.metadata
  THEN library.metadata.restoreAttemptCount
  ELSE 0

\* restoreLibraryHandles re-scanning without looking at the permission.
RescanWithoutPermission(hasHandle, permission) == hasHandle

\* restoreLibraryHandles: the two nested conditions in front of the re-scan,
\* if (library.directoryHandle) and if (permission).
CanRescan(hasHandle, permission) == hasHandle /\ permission

\* The restore that takes a scan without PDF files for a restored library.
RestoreBranchAcceptingEmpty(library, hs, cache, q, listing, flag) ==
  LET hasHandle == library.directoryHandle \in Dirs
      v == IF hasHandle
           THEN VerifyPermission(cache, library.directoryHandle, FALSE, q, "denied")
           ELSE [granted |-> FALSE, cache |-> cache, prompted |-> FALSE, threw |-> FALSE]
      scanned == CanRescan(hasHandle, v.granted)
      restoredFiles == IF scanned THEN ScanDirectory(listing) ELSE << >>
      verify == IF ~hasHandle THEN "none" ELSE IF v.granted THEN "granted" ELSE "denied"
  IN IF scanned
     THEN [lib |-> << Spread(library,
                       [files |-> restoredFiles,
                        metadata |-> Spread(library.metadata,
                                       Spread([needsReconnection |-> FALSE,
                                               lastRestored |-> TS], flag))]) >>,
           hs |-> UpdateHandleAccessCount(hs, library.id),
           cache |-> v.cache, prompted |-> v.prompted,
           verify |-> verify, scanned |-> TRUE,
           threw |-> v.threw \/ ScanThrows(listing)]
     ELSE [lib |-> << Spread(library,
                       [metadata |-> Spread(library.metadata,
                                       [needsReconnection |-> TRUE,
                                        lastAttemptedRestore |-> TS,
                                        restoreAttemptCount |->
                                          RestoreAttemptCountOf(library) + 1])]) >>,
           hs |-> hs, cache |-> v.cache, prompted |-> v.prompted,
           verify |-> verify,
           scanned |-> scanned,
           threw |-> v.threw \/ (scanned /\ ScanThrows(listing))]

\* The body shared by the enhanced and the legacy branch of restoreLibraryHandles:
\* verify without elevation, scan, and either the restored library (marked with
\* the branch's flag) or the library marked as needing reconnection.
RestoreBranch(library, hs, cache, q, listing, flag) ==
  LET hasHandle == library.directoryHandle \in Dirs
      v == IF hasHandle
           THEN VerifyPermission(cache, library.directoryHandle, FALSE, q, "denied")
           ELSE [granted |-> FALSE, cache |-> cache, prompted |-> FALSE, threw |-> FALSE]
      scanned == CanRescan(hasHandle, v.granted)
      restoredFiles == IF scanned THEN ScanDirectory(listing) ELSE << >>
      verify == IF ~hasHandle THEN "none" ELSE IF v.granted THEN "granted" ELSE "denied"
  IN IF scanned /\ Len(restoredFiles) > 0
     THEN [lib |-> << Spread(library,
                       [files |-> restoredFiles,
                        metadata |-> Spread(library.metadata,
                                       Spread([needsReconnection |-> FALSE,
                                               lastRestored |-> TS], flag))]) >>,
           hs |-> UpdateHandleAccessCount(hs, library.id),
           cache |-> v.cache, prompted |-> v.prompted,
           verify |-> verify, scanned |-> TRUE,
           threw |-> v.threw \/ ScanThrows(listing)]
     ELSE [lib |-> << Spread(library,
                       [metadata |-> Spread(library.metadata,
                                       [needsReconnection |-> TRUE,
                                        lastAttemptedRestore |-> TS,
                                        restoreAttemptCount |->
                                          RestoreAttemptCountOf(library) + 1])]) >>,
           hs |-> hs, cache |-> v.cache, prompted |-> v.prompted,
           verify |-> verify,
           scanned |-> scanned,
           threw |-> v.threw \/ (scanned /\ ScanThrows(listing))]

\* restoreLibraryHandles(library): hs = [enhanced, legacy] is the handle metadata in
\* localStorage, lsOk tells whether reading it goes through. lib is << >> for null.
RestoreLibraryHandles(library, hs, cache, q, listing, lsOk) ==
  IF ~lsOk
  THEN [lib |-> << >>, hs |-> hs, cache |-> cache, prompted |-> FALSE,
        verify |-> "none", scanned |-> FALSE, threw |-> FALSE]
  ELSE IF library.id \in DOMAIN hs.enhanced
  THEN RestoreBranch(library, hs, cache, q, listing, [restoredFromEnhancedStorage |-> TRUE])
  ELSE IF library.id \in DOMAIN hs.legacy
  THEN RestoreBranch(library, hs, cache, q, listing, [restoredFromBackup |-> TRUE])
  ELSE [lib |-> << >>, hs |-> hs, cache |-> cache, prompted |-> FALSE,
        verify |-> "none", scanned |-> FALSE, threw |-> FALSE]

\* What window.showDirectoryPicker() may do: hand out a directory, or reject with
\* AbortError (the user dismissed it) or with another error.
\* The user of the App sessions picks among the directories of PickedDirs.
PickedDirs == {"d1", "d2"}
Picks == PickedDirs \cup {"AbortError", "SecurityError"}

\* The picker, the permission and the scan, rejecting a directory without entries
\* instead of a scan without PDF files.
PickVerifyScanCountingEntries(pick, cache, q, r, listing) ==
  IF pick = "AbortError"
  THEN [outcome |-> "cancelled", message |-> "", files |-> << >>, cache |-> cache]
  ELSE IF pick \notin Dirs
  THEN [outcome |-> "throw", message |-> pick, files |-> << >>, cache |-> cache]
  ELSE LET v == VerifyPermission(cache, pick, TRUE, q, r) IN
       IF ~v.granted
       THEN [outcome |-> "throw", message |-> "Permission denied for directory access",
             files |-> << >>, cache |-> v.cache]
       ELSE IF Len(listing.entries) = 0
       THEN [outcome |-> "throw", message |-> "No PDF files found in selected directory",
             files |-> << >>, cache |-> v.cache]
       ELSE [outcome |-> "ok", message |-> "", files |-> ScanDirectory(listing),
             cache |-> v.cache]

\* The picker, the permission and the scan, without the check for an empty scan.
PickVerifyScanAcceptingEmpty(pick, cache, q, r, listing) ==
  IF pick = "AbortError"
  THEN [outcome |-> "cancelled", message |-> "", files |-> << >>, cache |-> cache]
  ELSE IF pick \notin Dirs
  THEN [outcome |-> "throw", message |-> pick, files |-> << >>, cache |-> cache]
  ELSE LET v == VerifyPermission(cache, pick, TRUE, q, r) IN
       IF ~v.granted
       THEN [outcome |-> "throw", message |-> "Permission denied for directory access",
             files |-> << >>, cache |-> v.cache]
       ELSE [outcome |-> "ok", message |-> "", files |-> ScanDirectory(listing),
             cache |-> v.cache]

\* The steps shared by createLibraryFromDirectory and reconnectLibrary up to the
\* scan: pick, verify with elevation, scan, reject an empty scan.
PickVerifyScan(pick, cache, q, r, listing) ==
  IF pick = "AbortError"
  THEN [outcome |-> "cancelled", message |-> "", files |-> << >>, cache |-> cache]
  ELSE IF pick \notin Dirs
  THEN [outcome |-> "throw", message |-> pick, files |-> << >>, cache |-> cache]
  ELSE LET v == VerifyPermission(cache, pick, TRUE, q, r) IN
       IF ~v.granted
       THEN [outcome |-> "throw", message |-> "Permission denied for directory access",
             files |-> << >>, cache |-> v.cache]
       ELSE IF Len(ScanDirectory(listing)) = 0
       THEN [outcome |-> "throw", message |-> "No PDF files found in selected directory",
             files |-> << >>, cache |-> v.cache]
       ELSE [outcome |-> "ok", message |-> "", files |-> ScanDirectory(listing),
             cache |-> v.cache]

\* createLibraryFromDirectory() with newId standing for crypto.randomUUID().
CreateLibraryFromDirectory(newId, pick, hs, cache, q, r, listing, how) ==
  LET s == PickVerifyScan(pick, cache, q, r, listing) IN
  IF s.outcome # "ok"
  THEN [lib |-> << >>, outcome |-> s.outcome, message |-> s.message, hs |-> hs,
        cache |-> s.cache]
  ELSE [lib |-> << [id |-> newId,
                    name |-> DirName(pick),
                    files |-> s.files,
                    directoryHandle |-> pick,
                    createdAt |-> TS,
                    lastAccessed |-> TS,
                    metadata |-> [fileCount |-> Len(s.files),
                                  totalSize |-> SumSizes(s.files),
                                  lastModified |-> TS,
                                  description |-> << "Library created from", DirName(pick) >>,
                                  tags |-> << "medical", "pdf" >>,
                                  category |-> "medical_documents",
                                  needsReconnection |-> FALSE,
                                  lastConnected |-> TS,
                                  persistence |-> [created |-> TS,
                                                   storageMethod |-> "enhanced",
                                                   backupLayers |->
                                                     << "localStorage", "indexedDB" >>]]] >>,
        outcome |-> "ok", message |-> "",
        hs |-> StoreDirectoryHandle(hs, newId, pick, how),
        cache |-> s.cache]

\* library.metadata?.reconnectionCount || 0
ReconnectionCountOf(library) ==
  IF "reconnectionCount" \in DOMAIN library.metadata
  THEN library.metadata.reconnectionCount
  ELSE 0

\* reconnectLibrary(library) as the later copy of the file has it: the same, but
\* without the reconnectionCount.
ReconnectLibraryUncounted(library, pick, hs, cache, q, r, listing, how) ==
  LET s == PickVerifyScan(pick, cache, q, r, listing) IN
  IF s.outcome # "ok"
  THEN [lib |-> << >>, outcome |-> s.outcome, message |-> s.message, hs |-> hs,
        cache |-> s.cache]
  ELSE [lib |-> << Spread(library,
                    [files |-> s.files,
                     directoryHandle |-> pick,
                     lastAccessed |-> TS,
                     metadata |-> Spread(library.metadata,
                                    [fileCount |-> Len(s.files),
                                     totalSize |-> SumSizes(s.files),
                                     lastModified |-> TS,
                                     needsReconnection |-> FALSE,
                                     lastConnected |-> TS,
                                     lastReconnected |-> TS])]) >>,
        outcome |-> "ok", message |-> "",
        hs |-> StoreDirectoryHandle(hs, library.id, pick, how),
        cache |-> s.cache]

\* reconnectLibrary(library) that forgets the stored handle metadata of the library
\* when the picker is dismissed, and is the later copy otherwise.
ReconnectLibraryForgetting(library, pick, hs, cache, q, r, listing, how) ==
  LET s == PickVerifyScan(pick, cache, q, r, listing) IN
  IF s.outcome = "cancelled"
  THEN [lib |-> << >>, outcome |-> s.outcome, message |-> s.message,
        hs |-> [enhanced |-> Remove(hs.enhanced, library.id),
                legacy |-> Remove(hs.legacy, library.id)],
        cache |-> s.cache]
  ELSE ReconnectLibraryUncounted(library, pick, hs, cache, q, r, listing, how)

\* reconnectLibrary(library)
ReconnectLibrary(library, pick, hs, cache, q, r, listing, how) ==
  LET s == PickVerifyScan(pick, cache, q, r, listing) IN
  IF s.outcome # "ok"
  THEN [lib |-> << >>, outcome |-> s.outcome, message |-> s.message, hs |-> hs,
        cache |-> s.cache]
  ELSE [lib |-> << Spread(library,
                    [files |-> s.files,
                     directoryHandle |-> pick,
                     lastAccessed |-> TS,
                     metadata |-> Spread(library.metadata,
                                    [fileCount |-> Len(s.files),
                                     totalSize |-> SumSizes(s.files),
                                     lastModified |-> TS,
                                     needsReconnection |-> FALSE,
                                     lastConnected |-> TS,
                                     lastReconnected |-> TS,
                                     reconnectionCount |->
                                       ReconnectionCountOf(library) + 1])]) >>,
        outcome |-> "ok", message |-> "",
        hs |-> StoreDirectoryHandle(hs, library.id, pick, how),
        cache |-> s.cache]

\* cleanupInvalidHandles: drops the handle metadata older than 30 days; old is the
\* set of library ids whose entries have that age.
CleanupInvalidHandles(hs, old) ==
  [enhanced |-> [k \in DOMAIN hs.enhanced \ old |-> hs.enhanced[k]],
   legacy |-> [k \in DOMAIN hs.legacy \ old |-> hs.legacy[k]]]

\* --------------------------------------------------------- db: health, reset
\* What the open request of openDB() meets: onsuccess, onerror, an upgrade that is
\* still running after the one-second wait, or onblocked.
OpenOutcomes == {"success", "error", "upgrading", "blocked"}

\* openDB(): the promise resolves on success and rejects on error and on a pending
\* upgrade; onblocked only logs a warning, so the promise is left pending.
OpenDB(open) ==
  CASE open = "success" -> "resolved"
    [] open = "error" -> "rejected"
    [] open = "upgrading" -> "rejected"
    [] open = "blocked" -> "pending"

\* What the count probe of checkDatabaseHealth() meets once the database is open:
\* the count succeeds, db.transaction() throws, or the count request errors.
ProbeOutcomes == {"success", "transactionThrows", "countError"}

\* checkDatabaseHealth() that lets a failure of openDB or of db.transaction out.
CheckDatabaseHealthRejecting(open, probe) ==
  [healthy |-> OpenDB(open) = "resolved" /\ probe = "success",
   settled |-> OpenDB(open) # "pending",
   threw |-> OpenDB(open) = "rejected" \/ probe = "transactionThrows"]

\* checkDatabaseHealth(): true when the count succeeds; a rejected openDB and a
\* throwing db.transaction are caught and give false, a count error resolves false;
\* it is settled unless openDB stays pending.
CheckDatabaseHealth(open, probe) ==
  [healthy |-> OpenDB(open) = "resolved" /\ probe = "success",
   settled |-> OpenDB(open) # "pending",
   threw |-> FALSE]

\* resetDatabase() that clears localStorage along with the database.
ResetDatabaseClearingStorage(st, delOk) ==
  [idb |-> IF delOk THEN EmptyObject ELSE st.idb, enh |-> EmptyObject,
   leg |-> EmptyObject, threw |-> ~delOk]

\* resetDatabase(): closes the connection and deletes the database.
ResetDatabase(st, delOk) ==
  [idb |-> IF delOk THEN EmptyObject ELSE st.idb, enh |-> st.enh, leg |-> st.leg,
   threw |-> ~delOk]

\* forceRecreateDatabase(): resetDatabase, then openDB.
ForceRecreateDatabase(st, delOk, openOk) ==
  LET d == ResetDatabase(st, delOk) IN
  [idb |-> d.idb, enh |-> d.enh, leg |-> d.leg, threw |-> d.threw \/ ~openOk]

\* ------------------------------------------------------------------ state
VARIABLES
  idb,              \* IndexedDB object store 'libraries': id -> record
  enh,              \* localStorage[PERSISTENCE_KEY]: id -> record (enhanced backup)
  leg,              \* localStorage[BACKUP_KEY]: id -> record (legacy backup)
  handleStore,      \* localStorage enhanced_file_handles / file_handles_cache
  permissionCache,  \* FileHandleManager.permissionCache
  libraries,        \* App state: libraries
  isLoading,        \* App state: isLoading
  phase,            \* where the session is: boot, get, reconcile, ready
  saved,            \* loadLibraries: savedLibraries
  verified,         \* loadLibraries: verifiedLibraries
  idx,              \* loadLibraries: position of the for loop in savedLibraries
  nextId,           \* the next value crypto.randomUUID() hands out
  ops,              \* user actions so far
  faults,           \* storage operations that failed so far
  lastOp,           \* what the last operation did and what the host answered
  lastSaved,        \* per id: the library of the last completed saveLibrary
  deleted,          \* ids whose deleteLibrary completed, until they are saved again
  wiped,            \* ids that were stored when a confirmed handleResetDatabase completed
  dbVersion,        \* version of the IndexedDB database MedicalLibraryDB
  verifiedHandles,  \* (handle, request) pairs given to verifyPermission since the
                    \* permission cache was last empty
  db,               \* db.ts: let db, the connection that openDB() hands out; 0 is unset
  isUpgrading,      \* db.ts: let isUpgrading
  openRequests,     \* the indexedDB.open() requests made so far, with their stage
  callers,          \* the callers of openDB(): where each one is in its call
  backends          \* HybridStorageManager: what each available backend holds

dbVars == << db, isUpgrading, openRequests, callers >>

vars == << idb, enh, leg, handleStore, permissionCache, libraries, isLoading, phase,
           saved, verified, idx, nextId, ops, faults, lastOp, lastSaved, deleted, wiped,
           dbVersion, verifiedHandles, db, isUpgrading, openRequests, callers,
           backends >>

Stores == [idb |-> idb, enh |-> enh, leg |-> leg]

\* HybridStorageManager as constructed: the available backends, in order of
\* preference, with nothing stored.
NoBackendData == [i \in 1 .. MaxBackends |-> EmptyObject]

\* db.ts as the module is loaded: db is unset, isUpgrading is false, no
\* indexedDB.open() request was made and nobody is inside openDB().
Callers == 1 .. MaxCallers
Idle == [pc |-> "idle", request |-> 0, connection |-> 0, waits |-> 0, message |-> "none",
         op |-> "none", id |-> 0]
NotOpened ==
  /\ db = 0
  /\ isUpgrading = FALSE
  /\ openRequests = << >>
  /\ callers = [c \in Callers |-> Idle]

\* The record of an operation that saved nothing and asked the host nothing.
Op(name) ==
  [op |-> name, id |-> 0, save |-> FALSE, pOk |-> TRUE, eOk |-> TRUE, lOk |-> TRUE,
   result |-> "ok", prompted |-> FALSE, logs |-> {}, alert |-> "none",
   verify |-> "none", grantable |-> FALSE, scan |-> << >>, loaded |-> << >>,
   threw |-> FALSE, at |-> 0, source |-> "none", signal |-> FALSE,
   recreated |-> FALSE, retried |-> FALSE, pick |-> "none", granted |-> FALSE,
   listing |-> [entries |-> << >>, failAt |-> 0], answer |-> "none",
   open |-> "none", probe |-> "none", healthy |-> TRUE,
   request |-> FALSE, cached |-> FALSE, hostGrants |-> FALSE,
   key |-> "none", data |-> "null", returned |-> "none"]

FileNames(library) == [i \in DOMAIN library.files |-> library.files[i].name]

\* The fields of library.metadata.persistence that are set.
PersistenceFields(library) ==
  IF "persistence" \in DOMAIN library.metadata
  THEN DOMAIN library.metadata.persistence
  ELSE {}

\* lastSaved after saveLibrary(library) returned s: the library given, whether the IndexedDB put went through, and the metadata fields the
\* libraries put under this id have had set so far.
AfterSave(ls, library, s, pOk) ==
  LET id == library.id
      metaBefore == IF id \in DOMAIN ls THEN ls[id].metaSet ELSE {}
      persBefore == IF id \in DOMAIN ls THEN ls[id].persistenceSet ELSE {}
  IN IF s.result = "ok"
     THEN Put(ls, id,
              [library |-> library, pOk |-> pOk,
               metaSet |-> IF pOk THEN metaBefore \cup DOMAIN library.metadata
                           ELSE metaBefore,
               persistenceSet |-> IF pOk THEN persBefore \cup PersistenceFields(library)
                                  ELSE persBefore])
     ELSE ls

\* ------------------------------------------------- what the host may answer
Cost(ok) == IF ok THEN 0 ELSE 1

Budget == MaxFaults - faults

\* Outcomes of the three writes of one saveLibrary (IndexedDB, enhanced, legacy)
\* that the fault budget allows; the legacy write is not reached when the
\* enhanced one fails.
SaveFaults ==
  { f \in [p : BOOLEAN, e : BOOLEAN, l : BOOLEAN] :
      /\ Cost(f.p) + Cost(f.e) + Cost(f.l) <= Budget
      /\ (~f.e => f.l) }

\* Outcomes of the three removals of one deleteLibrary.
DeleteFaults ==
  { f \in [p : BOOLEAN, e : BOOLEAN, l : BOOLEAN] :
      Cost(f.p) + Cost(f.e) + Cost(f.l) <= Budget }

\* Outcomes of one storage call.
OneFault == IF Budget > 0 THEN BOOLEAN ELSE {TRUE}

\* Outcomes of storeDirectoryHandle.
StoreFaults == IF Budget > 0 THEN StoreOutcomes ELSE {"ok"}

NoListing == [entries |-> << >>, failAt |-> 0]

\* The answers of the host that make a difference to verifyPermission(dir, request)
\* followed by a scan: q and r are not asked on a cache hit, r is asked only after
\* a query that did not grant, and createLibraryFromDirectory / reconnectLibrary
\* scan only after a grant. The passive load reads the listing in every case.
HostAnswers(cache, dir, request) ==
  { a \in [q : QueryOutcomes, r : RequestOutcomes, listing : Listings] :
      /\ (CacheKey(dir, request) \in DOMAIN cache => a.q = "denied" /\ a.r = "denied")
      /\ (~request \/ a.q # "denied" => a.r = "denied")
      /\ (request /\ ~VerifyPermission(cache, dir, request, a.q, a.r).granted
            => a.listing = NoListing) }

NoAnswer == [q |-> "denied", r |-> "denied", listing |-> NoListing]

\* The picks and answers of one createLibraryFromDirectory / reconnectLibrary.
PickAnswers(cache) ==
  { pa \in [pick : Picks, a : [q : QueryOutcomes, r : RequestOutcomes, listing : Listings]] :
      IF pa.pick \in Dirs THEN pa.a \in HostAnswers(cache, pa.pick, TRUE)
      ELSE pa.a = NoAnswer }

Init ==
  /\ idb = EmptyObject
  /\ enh = EmptyObject
  /\ leg = EmptyObject
  /\ handleStore = [enhanced |-> EmptyObject, legacy |-> EmptyObject]
  /\ permissionCache = EmptyObject
  /\ libraries = << >>
  /\ isLoading = TRUE
  /\ phase = "boot"
  /\ saved = << >>
  /\ verified = << >>
  /\ idx = 1
  /\ nextId = 1
  /\ ops = 0
  /\ faults = 0
  /\ lastOp = Op("init")
  /\ lastSaved = EmptyObject
  /\ deleted = {}
  /\ wiped = {}
  /\ dbVersion = DB_VERSION
  /\ verifiedHandles = {}
  /\ NotOpened
  /\ backends = NoBackendData

\* ------------------------------------------------------ App: loadLibraries
\* error.message.includes('Version change transaction was aborted')
CorruptionSignal == "Version change transaction was aborted"
OtherFailure == "IndexedDB retrieval failed"

\* The messages a failed read of the Primary Store may carry.
FailureMessages == {CorruptionSignal, OtherFailure}

\* loadLibraries, first part: checkDatabaseHealth and, when it fails,
\* forceRecreateDatabase, whose failure is caught.
LoadHealth ==
  /\ phase = "boot"
  /\ \E open \in OpenOutcomes :
     \E probe \in IF OpenDB(open) = "resolved" THEN ProbeOutcomes ELSE {"success"} :
       LET h == CheckDatabaseHealth(open, probe)
           host == [Op("health") EXCEPT !.open = open, !.probe = probe,
                      !.healthy = h.healthy, !.pOk = h.healthy]
       IN
       CASE ~h.settled ->
              /\ phase' = "blocked"
              /\ isLoading' = TRUE
              /\ lastOp' = [host EXCEPT !.result = "pending"]
              /\ UNCHANGED << idb, enh, leg, libraries, lastSaved, faults >>
         [] h.settled /\ h.threw ->
              /\ 1 <= Budget
              /\ faults' = faults + 1
              /\ phase' = "ready"
              /\ isLoading' = FALSE
              /\ libraries' = << >>
              /\ lastOp' = [host EXCEPT !.result = "throw", !.threw = TRUE]
              /\ UNCHANGED << idb, enh, leg, lastSaved >>
         [] h.settled /\ ~h.threw /\ h.healthy ->
              /\ phase' = "get"
              /\ isLoading' = TRUE
              /\ lastOp' = host
              /\ UNCHANGED << idb, enh, leg, libraries, lastSaved, faults >>
         [] h.settled /\ ~h.threw /\ ~h.healthy ->
              \E delOk \in BOOLEAN :
                LET f == ForceRecreateDatabase(Stores, delOk, TRUE) IN
                /\ 1 + Cost(delOk) <= Budget
                /\ faults' = faults + 1 + Cost(delOk)
                /\ idb' = f.idb
                /\ enh' = f.enh
                /\ leg' = f.leg
                /\ lastSaved' = IF delOk THEN EmptyObject ELSE lastSaved
                /\ phase' = "get"
                /\ isLoading' = TRUE
                /\ libraries' = libraries
                /\ lastOp' = [host EXCEPT !.recreated = TRUE,
                                !.result = IF f.threw THEN "throw" ELSE "ok"]
  /\ UNCHANGED << handleStore, permissionCache, saved, verified,
                  idx, nextId, ops, deleted, wiped, dbVersion,
                  verifiedHandles,
                  dbVars, backends >>

\* loadLibraries, second part: getLibraries(), and the outer catch block, which a
\* getLibraries that threw would enter: on the corruption signal it recreates the
\* database and reads again, otherwise (or when that fails) the list is empty.
LoadGet ==
  /\ phase = "get"
  /\ \E pOk \in OneFault :
     \E eOk \in IF pOk /\ DOMAIN idb # {} THEN {TRUE} ELSE BOOLEAN :
     \E lOk \in IF (pOk /\ DOMAIN idb # {}) \/ (eOk /\ DOMAIN enh # {})
                THEN {TRUE} ELSE BOOLEAN :
     \E message \in IF pOk THEN {"none"} ELSE FailureMessages :
       LET g == GetLibraries(Stores, pOk, eOk, lOk)
           got == [Op("get") EXCEPT !.pOk = pOk, !.eOk = eOk, !.lOk = lOk,
                     !.source = g.source, !.signal = message = CorruptionSignal,
                     !.result = IF g.threw THEN "throw" ELSE "ok"]
       IN
       /\ Cost(pOk) + Cost(eOk) + Cost(lOk) <= Budget
       /\ faults' = faults + Cost(pOk) + Cost(eOk) + Cost(lOk)
       /\ IF ~g.threw
          THEN /\ saved' = g.libraries
               /\ verified' = << >>
               /\ idx' = 1
               /\ phase' = "reconcile"
               /\ lastOp' = got
               /\ UNCHANGED << idb, enh, leg, libraries, isLoading, lastSaved >>
          ELSE /\ isLoading' = FALSE
               /\ phase' = "ready"
               /\ UNCHANGED << saved, verified, idx >>
               /\ IF message = CorruptionSignal
                  THEN \E delOk \in BOOLEAN, openOk \in BOOLEAN :
                         LET f == ForceRecreateDatabase(Stores, delOk, openOk)
                             again == GetLibraries([idb |-> f.idb, enh |-> f.enh,
                                                    leg |-> f.leg], openOk, TRUE, TRUE)
                         IN /\ idb' = f.idb
                            /\ enh' = f.enh
                            /\ leg' = f.leg
                            /\ lastSaved' = IF delOk THEN EmptyObject ELSE lastSaved
                            /\ libraries' = IF f.threw \/ again.threw THEN << >>
                                            ELSE again.libraries
                            /\ lastOp' = [got EXCEPT !.recreated = TRUE,
                                            !.retried = ~f.threw]
                  ELSE /\ libraries' = << >>
                       /\ lastOp' = got
                       /\ UNCHANGED << idb, enh, leg, lastSaved >>
  /\ UNCHANGED << handleStore, permissionCache, nextId, ops, deleted, wiped, dbVersion,
                  verifiedHandles,
                  dbVars, backends >>

\* loadLibraries: the else branch of the loop body (restoreLibraryHandles gave null).
MarkReselect(lib) ==
  Spread(lib, [metadata |-> Spread(lib.metadata,
                              [needsReconnection |-> TRUE, lastAttemptedRestore |-> TS])])

\* loadLibraries: the catch branch of the loop body.
MarkErrored(lib) ==
  Spread(lib, [metadata |-> Spread(lib.metadata,
                              [hasErrors |-> TRUE,
                               errorMessage |-> "Error",
                               lastError |-> TS])])

\* loadLibraries, one pass of the for loop over savedLibraries.
LoadStep ==
  /\ phase = "reconcile"
  /\ idx <= Len(saved)
  /\ LET lib == saved[idx] IN
     \E lsOk \in OneFault :
     \E a \in IF lsOk /\ lib.directoryHandle \in Dirs
              THEN HostAnswers(permissionCache, lib.directoryHandle, FALSE)
              ELSE {NoAnswer} :
       LET r == RestoreLibraryHandles(lib, handleStore, permissionCache, a.q,
                                      a.listing, lsOk)
           host == [Op("reconcile") EXCEPT
                      !.id = lib.id,
                      !.prompted = r.prompted,
                      !.verify = r.verify,
                      !.grantable =
                         /\ lib.directoryHandle \in Dirs
                         /\ VerifyPermission(permissionCache, lib.directoryHandle,
                                             FALSE, a.q, "denied").granted,
                      !.scan = ScanDirectory(a.listing),
                      !.listing = a.listing,
                      !.loaded = << lib >>,
                      !.threw = r.threw,
                      !.at = Len(verified) + 1]
       IN /\ handleStore' = r.hs
          /\ permissionCache' = r.cache
          /\ verifiedHandles' = IF r.verify # "none"
                                THEN verifiedHandles \cup {<< lib.directoryHandle, FALSE >>}
                                ELSE verifiedHandles
          /\ IF Len(r.lib) > 0
             THEN \E f \in SaveFaults :
                    LET s == SaveLibrary(r.lib[1], Stores, f.p, f.e, f.l) IN
                    /\ Cost(lsOk) + Cost(f.p) + Cost(f.e) + Cost(f.l) <= Budget
                    /\ faults' = faults + Cost(lsOk) + Cost(f.p) + Cost(f.e) + Cost(f.l)
                    /\ idb' = s.idb
                    /\ enh' = s.enh
                    /\ leg' = s.leg
                    /\ verified' = IF s.result = "ok"
                                   THEN Append(verified, r.lib[1])
                                   ELSE Append(Append(verified, r.lib[1]), MarkErrored(lib))
                    /\ lastSaved' = AfterSave(lastSaved, r.lib[1], s, f.p)
                    /\ deleted' = deleted \ {lib.id}
                    /\ lastOp' = [host EXCEPT !.save = TRUE, !.pOk = f.p, !.eOk = f.e,
                                    !.lOk = f.l, !.result = s.result, !.logs = s.logs]
             ELSE /\ verified' = Append(verified, MarkReselect(lib))
                  /\ faults' = faults + Cost(lsOk)
                  /\ lastOp' = host
                  /\ UNCHANGED << idb, enh, leg, lastSaved, deleted >>
  /\ idx' = idx + 1
  /\ UNCHANGED << libraries, isLoading, phase, saved, nextId, ops, wiped, dbVersion,
                  dbVars, backends >>

\* loadLibraries, after the loop: setLibraries(verifiedLibraries) and the finally block.
LoadFinish ==
  /\ phase = "reconcile"
  /\ idx > Len(saved)
  /\ libraries' = verified
  /\ isLoading' = FALSE
  /\ phase' = "ready"
  /\ lastOp' = Op("finish")
  /\ UNCHANGED << idb, enh, leg, handleStore, permissionCache, saved, verified, idx,
                  nextId, ops, faults, lastSaved, deleted, wiped, dbVersion,
                  verifiedHandles,
                  dbVars, backends >>

\* ------------------------------------------------------- App: user actions
Ready == phase = "ready" /\ ~isLoading /\ ops < MaxOps

\* handleAddLibrary
AddLibrary ==
  /\ Ready
  /\ ops' = ops + 1
  /\ nextId <= MaxIds
  /\ \E pa \in PickAnswers(permissionCache) :
     \E how \in IF PickVerifyScan(pa.pick, permissionCache, pa.a.q, pa.a.r,
                                  pa.a.listing).outcome = "ok"
                THEN StoreFaults ELSE {"ok"} :
       LET c == CreateLibraryFromDirectory(nextId, pa.pick, handleStore, permissionCache,
                                           pa.a.q, pa.a.r, pa.a.listing, how)
           host == [Op("add") EXCEPT
                      !.prompted = TRUE,
                      !.pick = pa.pick,
                      !.answer = IF /\ pa.pick \in Dirs
                                    /\ VerifyPermission(permissionCache, pa.pick, TRUE,
                                                        pa.a.q, pa.a.r).prompted
                                 THEN pa.a.r ELSE "none",
                      !.granted = /\ pa.pick \in Dirs
                                  /\ VerifyPermission(permissionCache, pa.pick, TRUE,
                                                      pa.a.q, pa.a.r).granted,
                      !.scan = ScanDirectory(pa.a.listing),
                      !.listing = pa.a.listing,
                      !.threw = c.outcome = "throw",
                      !.result = c.outcome]
       IN /\ handleStore' = c.hs
          /\ permissionCache' = c.cache
          /\ verifiedHandles' = IF pa.pick \in Dirs
                                THEN verifiedHandles \cup {<< pa.pick, TRUE >>}
                                ELSE verifiedHandles
          /\ IF c.outcome = "ok"
             THEN \E f \in SaveFaults :
                    LET s == SaveLibrary(c.lib[1], Stores, f.p, f.e, f.l) IN
                    /\ Cost(how = "ok") + Cost(f.p) + Cost(f.e) + Cost(f.l) <= Budget
                    /\ faults' = faults + Cost(how = "ok") + Cost(f.p) + Cost(f.e)
                                 + Cost(f.l)
                    /\ idb' = s.idb
                    /\ enh' = s.enh
                    /\ leg' = s.leg
                    /\ libraries' = IF s.result = "ok" THEN Append(libraries, c.lib[1])
                                    ELSE libraries
                    /\ lastSaved' = AfterSave(lastSaved, c.lib[1], s, f.p)
                    /\ nextId' = nextId + 1
                    /\ lastOp' = [host EXCEPT !.id = nextId, !.save = TRUE, !.pOk = f.p,
                                    !.eOk = f.e, !.lOk = f.l, !.result = s.result,
                                    !.logs = s.logs,
                                    !.alert = IF s.result = "ok" THEN "none" ELSE "error"]
             ELSE /\ lastOp' = [host EXCEPT
                                  !.alert = IF c.outcome = "throw" THEN "error" ELSE "none"]
                  /\ UNCHANGED << idb, enh, leg, libraries, lastSaved, nextId, faults >>
  /\ UNCHANGED << isLoading, phase, saved, verified, idx, deleted, wiped, dbVersion,
                  dbVars, backends >>

\* A map that puts the reconnected library in every position of the list.
ReplaceEvery(libs, id, new) ==
  [i \in DOMAIN libs |-> new]

\* setLibraries(prev => prev.map(lib => lib.id === library.id ? reconnected : lib))
ReplaceById(libs, id, new) ==
  [i \in DOMAIN libs |-> IF libs[i].id = id THEN new ELSE libs[i]]

\* handleReconnectLibrary(libraries[i])
Reconnect(i) ==
  /\ Ready
  /\ ops' = ops + 1
  /\ \E pa \in PickAnswers(permissionCache) :
     \E how \in IF PickVerifyScan(pa.pick, permissionCache, pa.a.q, pa.a.r,
                                  pa.a.listing).outcome = "ok"
                THEN StoreFaults ELSE {"ok"} :
       LET library == libraries[i]
           c == ReconnectLibrary(library, pa.pick, handleStore, permissionCache,
                                 pa.a.q, pa.a.r, pa.a.listing, how)
           host == [Op("reconnect") EXCEPT
                      !.id = library.id,
                      !.prompted = TRUE,
                      !.pick = pa.pick,
                      !.answer = IF /\ pa.pick \in Dirs
                                    /\ VerifyPermission(permissionCache, pa.pick, TRUE,
                                                        pa.a.q, pa.a.r).prompted
                                 THEN pa.a.r ELSE "none",
                      !.granted = /\ pa.pick \in Dirs
                                  /\ VerifyPermission(permissionCache, pa.pick, TRUE,
                                                      pa.a.q, pa.a.r).granted,
                      !.scan = ScanDirectory(pa.a.listing),
                      !.listing = pa.a.listing,
                      !.loaded = << library >>,
                      !.threw = c.outcome = "throw",
                      !.result = c.outcome]
       IN /\ handleStore' = c.hs
          /\ permissionCache' = c.cache
          /\ verifiedHandles' = IF pa.pick \in Dirs
                                THEN verifiedHandles \cup {<< pa.pick, TRUE >>}
                                ELSE verifiedHandles
          /\ IF c.outcome = "ok"
             THEN \E f \in SaveFaults :
                    LET s == SaveLibrary(c.lib[1], Stores, f.p, f.e, f.l) IN
                    /\ Cost(how = "ok") + Cost(f.p) + Cost(f.e) + Cost(f.l) <= Budget
                    /\ faults' = faults + Cost(how = "ok") + Cost(f.p) + Cost(f.e)
                                 + Cost(f.l)
                    /\ idb' = s.idb
                    /\ enh' = s.enh
                    /\ leg' = s.leg
                    /\ libraries' = IF s.result = "ok"
                                    THEN ReplaceById(libraries, library.id, c.lib[1])
                                    ELSE libraries
                    /\ lastSaved' = AfterSave(lastSaved, c.lib[1], s, f.p)
                    /\ deleted' = deleted \ {library.id}
                    /\ lastOp' = [host EXCEPT !.save = TRUE, !.pOk = f.p, !.eOk = f.e,
                                    !.lOk = f.l, !.result = s.result, !.logs = s.logs,
                                    !.alert = IF s.result = "ok" THEN "success" ELSE "error"]
             ELSE /\ lastOp' = [host EXCEPT
                                  !.alert = IF c.outcome = "throw" THEN "error" ELSE "none"]
                  /\ UNCHANGED << idb, enh, leg, libraries, lastSaved, deleted, faults >>
  /\ UNCHANGED << isLoading, phase, saved, verified, idx, nextId, wiped, dbVersion,
                  dbVars, backends >>

\* setLibraries(libs => libs.filter(lib => lib.id !== id))
RECURSIVE FilterOut(_, _)
FilterOut(libs, id) ==
  IF libs = << >> THEN << >>
  ELSE IF Head(libs).id = id THEN FilterOut(Tail(libs), id)
  ELSE << Head(libs) >> \o FilterOut(Tail(libs), id)

\* handleDeleteLibrary(libraries[i].id), confirmed by the user
Delete(i) ==
  /\ Ready
  /\ ops' = ops + 1
  /\ \E f \in DeleteFaults :
       LET id == libraries[i].id
           d == DeleteLibrary(id, Stores, f.p, f.e, f.l)
       IN /\ faults' = faults + Cost(f.p) + Cost(f.e) + Cost(f.l)
          /\ idb' = d.idb
          /\ enh' = d.enh
          /\ leg' = d.leg
          /\ libraries' = IF d.result = "ok" THEN FilterOut(libraries, id) ELSE libraries
          /\ lastSaved' = Remove(lastSaved, id)
          /\ deleted' = IF d.result = "ok" THEN deleted \cup {id} ELSE deleted
          /\ lastOp' = [Op("delete") EXCEPT !.id = id, !.pOk = f.p, !.eOk = f.e,
                          !.lOk = f.l, !.result = d.result, !.logs = d.logs,
                          !.alert = IF d.result = "ok" THEN "none" ELSE "error"]
  /\ UNCHANGED << handleStore, permissionCache, isLoading, phase, saved, verified, idx,
                  nextId, wiped, dbVersion,
                  verifiedHandles,
                  dbVars, backends >>

\* handleResetDatabase, confirmed by the user
Reset ==
  /\ Ready
  /\ ops' = ops + 1
  /\ \E delOk \in OneFault :
       LET d == ResetDatabase(Stores, delOk) IN
       /\ faults' = faults + Cost(delOk)
       /\ idb' = d.idb
       /\ enh' = d.enh
       /\ leg' = d.leg
       /\ libraries' = IF d.threw THEN libraries ELSE << >>
       /\ lastSaved' = IF d.threw THEN lastSaved ELSE EmptyObject
       /\ wiped' = IF d.threw THEN wiped
                   ELSE wiped \cup DOMAIN idb \cup DOMAIN enh \cup DOMAIN leg
       /\ lastOp' = [Op("reset") EXCEPT !.pOk = delOk,
                       !.result = IF d.threw THEN "throw" ELSE "ok",
                       !.alert = IF d.threw THEN "error" ELSE "success"]
  /\ UNCHANGED << handleStore, permissionCache, isLoading, phase, saved,
                  verified, idx, nextId, deleted, dbVersion,
                  verifiedHandles,
                  dbVars, backends >>

\* fileHandleManager.cleanupInvalidHandles() once the entries of old are 30 days old
Cleanup ==
  /\ Ready
  /\ ops' = ops + 1
  /\ \E old \in SUBSET (DOMAIN handleStore.enhanced \cup DOMAIN handleStore.legacy) :
       /\ old # {}
       /\ handleStore' = CleanupInvalidHandles(handleStore, old)
  /\ lastOp' = Op("cleanup")
  /\ UNCHANGED << idb, enh, leg, permissionCache, libraries, isLoading, phase, saved,
                  verified, idx, nextId, faults, lastSaved, deleted, wiped, dbVersion,
                  verifiedHandles,
                  dbVars, backends >>

\* The page is loaded again: module state and React state start over, the stores stay.
Reload ==
  /\ Ready
  /\ ops' = ops + 1
  /\ permissionCache' = EmptyObject
  /\ verifiedHandles' = {}
  /\ libraries' = << >>
  /\ isLoading' = TRUE
  /\ phase' = "boot"
  /\ saved' = << >>
  /\ verified' = << >>
  /\ idx' = 1
  /\ lastOp' = Op("reload")
  /\ UNCHANGED << idb, enh, leg, handleStore, nextId, faults, lastSaved, deleted, wiped,
                  dbVersion,
                  dbVars, backends >>

Next ==
  \/ LoadHealth
  \/ LoadGet
  \/ LoadStep
  \/ LoadFinish
  \/ AddLibrary
  \/ \E i \in DOMAIN libraries : Reconnect(i)
  \/ \E i \in DOMAIN libraries : Delete(i)
  \/ Reset
  \/ Cleanup
  \/ Reload

Spec == Init /\ [][Next]_vars

\* ------------------------------------------------- getLibraries on any stores
\* A library as createLibraryFromDirectory builds it from a directory with one PDF.
SampleLibrary(id) ==
  CreateLibraryFromDirectory(id, "d1", [enhanced |-> EmptyObject, legacy |-> EmptyObject],
                             EmptyObject, "granted", "denied",
                             [entries |-> << Entry(PdfA, "file", TRUE) >>, failAt |-> 0],
                             "ok").lib[1]

\* What saveLibrary(SampleLibrary(id)) writes into the three stores.
SampleSaved(id) ==
  SaveLibrary(SampleLibrary(id),
              [idb |-> EmptyObject, enh |-> EmptyObject, leg |-> EmptyObject],
              TRUE, TRUE, TRUE)

\* Store contents that saves and deletes leave behind when puts and removals of
\* single stores fail: each store holds the records of any subset of the ids.
IdSets == SUBSET (1 .. MaxIds)

\* A page load that has passed the health check, over any such store contents.
InitRead ==
  /\ \E P \in IdSets : idb = [id \in P |-> SampleSaved(id).idb[id]]
  /\ \E E \in IdSets : enh = [id \in E |-> SampleSaved(id).enh[id]]
  /\ \E L \in IdSets : leg = [id \in L |-> SampleSaved(id).leg[id]]
  /\ handleStore = [enhanced |-> EmptyObject, legacy |-> EmptyObject]
  /\ permissionCache = EmptyObject
  /\ libraries = << >>
  /\ isLoading = TRUE
  /\ phase = "get"
  /\ saved = << >>
  /\ verified = << >>
  /\ idx = 1
  /\ nextId = MaxIds + 1
  /\ ops = 0
  /\ faults = 0
  /\ lastOp = Op("health")
  /\ lastSaved = EmptyObject
  /\ deleted = {}
  /\ wiped = {}
  /\ dbVersion = DB_VERSION
  /\ verifiedHandles = {}
  /\ NotOpened
  /\ backends = NoBackendData

\* The call of getLibraries() in loadLibraries.
NextRead == LoadGet

SpecRead == InitRead /\ [][NextRead]_vars

\* ----------------------------------------------- openDB on an older database
\* The cursor callback of the step to version 2: defaults for the new fields.
MigrateTo2(library) ==
  LET a == IF "createdAt" \in DOMAIN library THEN library
           ELSE Spread(library, [createdAt |-> TS])
      b == IF "lastAccessed" \in DOMAIN a THEN a ELSE Spread(a, [lastAccessed |-> TS])
  IN IF "metadata" \in DOMAIN b THEN b ELSE Spread(b, [metadata |-> EmptyObject])

\* The cursor callback of the step to version 3: the persistence metadata.
MigrateTo3(library) ==
  LET a == IF "metadata" \in DOMAIN library THEN library
           ELSE Spread(library, [metadata |-> EmptyObject])
  IN IF "persistence" \in DOMAIN a.metadata THEN a
     ELSE Spread(a, [metadata |->
                       Spread(a.metadata,
                              [persistence |-> [lastSaved |-> TS, saveCount |-> 1,
                                                backupCreated |-> TRUE,
                                                localStorageBackup |-> TRUE]])])

\* (dbInstance as any).objectStore(STORE_NAME): an IDBDatabase has no objectStore
\* method (object stores are reached through a transaction), so the call throws a
\* TypeError before any cursor is opened; the try block of the step catches it.
ObjectStoreCallThrows == TRUE

\* An upgrade whose version 3 step counts one more save on every record.
UpgradeCounting(records, oldVersion) ==
  IF oldVersion < 3
  THEN [id \in DOMAIN records |->
          LET m == MigrateTo3(records[id]) IN
          Spread(m, [metadata |->
                       Spread(m.metadata,
                              [persistence |->
                                 Spread(m.metadata.persistence,
                                        [saveCount |->
                                           m.metadata.persistence.saveCount + 1])])])]
  ELSE records

\* onupgradeneeded on the records of the store: the steps to version 2 and to
\* version 3, each of which ends in its catch block when the objectStore call
\* throws.
Upgrade(records, oldVersion) ==
  LET to2 == IF oldVersion < 2 /\ ~ObjectStoreCallThrows
             THEN [id \in DOMAIN records |-> MigrateTo2(records[id])]
             ELSE records
  IN IF oldVersion < 3 /\ ~ObjectStoreCallThrows
     THEN [id \in DOMAIN to2 |-> MigrateTo3(to2[id])]
     ELSE to2

\* Records that the releases of the application have left in the store: without
\* the fields of version 2, without metadata, without persistence metadata, and as
\* saveLibrary writes them now.
OldRecords(id) ==
  LET v1 == [id |-> id, name |-> "docs", files |-> << >>, directoryHandle |-> Null] IN
  { v1,
    Spread(v1, [createdAt |-> TS, lastAccessed |-> TS]),
    Spread(v1, [createdAt |-> TS, lastAccessed |-> TS, metadata |-> [fileCount |-> 0]]),
    SampleSaved(id).idb[id] }

\* The stores an older release can have left: no database (version 0), or a
\* database of some version with old records under any of the ids.
OldStores ==
  UNION { { r \in [P -> UNION { OldRecords(id) : id \in P }] :
              \A id \in P : r[id] \in OldRecords(id) } : P \in IdSets }

InitMigrate ==
  /\ dbVersion \in 0 .. DB_VERSION
  /\ idb \in OldStores
  /\ dbVersion = 0 => idb = EmptyObject
  /\ enh = EmptyObject
  /\ leg = EmptyObject
  /\ handleStore = [enhanced |-> EmptyObject, legacy |-> EmptyObject]
  /\ permissionCache = EmptyObject
  /\ libraries = << >>
  /\ isLoading = TRUE
  /\ phase = "boot"
  /\ saved = << >>
  /\ verified = << >>
  /\ idx = 1
  /\ nextId = MaxIds + 1
  /\ ops = 0
  /\ faults = 0
  /\ lastOp = Op("init")
  /\ lastSaved = EmptyObject
  /\ deleted = {}
  /\ wiped = {}
  /\ verifiedHandles = {}
  /\ NotOpened
  /\ backends = NoBackendData

\* openDB() with a new connection (a page load): onupgradeneeded runs when the
\* stored version is below DB_VERSION, then onsuccess.
OpenDatabase ==
  /\ ops < MaxOps
  /\ ops' = ops + 1
  /\ idb' = IF dbVersion < DB_VERSION THEN Upgrade(idb, dbVersion) ELSE idb
  /\ dbVersion' = DB_VERSION
  /\ lastOp' = [Op("open") EXCEPT !.at = dbVersion]
  /\ UNCHANGED << enh, leg, handleStore, permissionCache, libraries, isLoading, phase,
                  saved, verified, idx, nextId, faults, lastSaved, deleted, wiped,
                  verifiedHandles, dbVars, backends >>

NextMigrate == OpenDatabase

SpecMigrate == InitMigrate /\ [][NextMigrate]_vars

\* ------------------------------------- FileHandleManager on handles that share a name
\* The state of a session in which the load has finished and one library, whose
\* directory the user may pick again, is in the list.
InitPermission ==
  /\ idb = EmptyObject
  /\ enh = EmptyObject
  /\ leg = EmptyObject
  /\ handleStore = [enhanced |-> EmptyObject, legacy |-> EmptyObject]
  /\ permissionCache = EmptyObject
  /\ verifiedHandles = {}
  /\ NotOpened
  /\ backends = NoBackendData
  /\ libraries = << SampleLibrary(1) >>
  /\ isLoading = FALSE
  /\ phase = "ready"
  /\ saved = << >>
  /\ verified = << >>
  /\ idx = 1
  /\ nextId = MaxIds + 1
  /\ ops = 0
  /\ faults = 0
  /\ lastOp = Op("init")
  /\ lastSaved = EmptyObject
  /\ deleted = {}
  /\ wiped = {}
  /\ dbVersion = DB_VERSION

\* The host would give the permission if it were asked now: queryPermission
\* answers 'granted', or the call elevates and requestPermission does.
HostGrants(request, q, r) == q = "granted" \/ (request /\ q = "denied" /\ r = "granted")

\* What verifyPermission(directoryHandle, request) leaves in the record of the step.
Verified(name, directoryHandle, request, q, r) ==
  LET v == VerifyPermission(permissionCache, directoryHandle, request, q, r) IN
  [Op(name) EXCEPT !.pick = directoryHandle,
                   !.request = request,
                   !.cached = CacheKey(directoryHandle, request) \in DOMAIN permissionCache,
                   !.hostGrants = HostGrants(request, q, r),
                   !.granted = v.granted,
                   !.prompted = v.prompted,
                   !.threw = v.threw]

\* fileHandleManager.verifyPermission(directoryHandle, request)
VerifyHandle ==
  /\ ops < MaxOps
  /\ ops' = ops + 1
  /\ \E directoryHandle \in Dirs, request \in BOOLEAN :
     \E q \in QueryOutcomes, r \in RequestOutcomes :
       /\ permissionCache' =
            VerifyPermission(permissionCache, directoryHandle, request, q, r).cache
       /\ verifiedHandles' = verifiedHandles \cup {<< directoryHandle, request >>}
       /\ lastOp' = Verified("verify", directoryHandle, request, q, r)
  /\ UNCHANGED << idb, enh, leg, handleStore, libraries, isLoading, phase, saved,
                  verified, idx, nextId, faults, lastSaved, deleted, wiped, dbVersion,
                  dbVars, backends >>

\* fileHandleManager.reconnectLibrary(libraries[1]) with the picker handing out
\* any of the directories.
ReconnectAttempt ==
  /\ ops < MaxOps
  /\ ops' = ops + 1
  /\ \E pick \in Dirs, listing \in Listings :
     \E q \in QueryOutcomes, r \in RequestOutcomes :
       LET c == ReconnectLibrary(libraries[1], pick, handleStore, permissionCache,
                                 q, r, listing, "ok")
       IN /\ permissionCache' = c.cache
          /\ handleStore' = c.hs
          /\ verifiedHandles' = verifiedHandles \cup {<< pick, TRUE >>}
          /\ lastOp' = [Verified("reconnectLibrary", pick, TRUE, q, r) EXCEPT
                          !.id = libraries[1].id,
                          !.scan = ScanDirectory(listing),
                          !.listing = listing,
                          !.result = c.outcome]
  /\ UNCHANGED << idb, enh, leg, libraries, isLoading, phase, saved, verified, idx,
                  nextId, faults, lastSaved, deleted, wiped, dbVersion,
                  dbVars, backends >>

\* fileHandleManager.clearCache()
ClearCache ==
  /\ ops < MaxOps
  /\ ops' = ops + 1
  /\ permissionCache' = EmptyObject
  /\ verifiedHandles' = {}
  /\ lastOp' = Op("clearCache")
  /\ UNCHANGED << idb, enh, leg, handleStore, libraries, isLoading, phase, saved,
                  verified, idx, nextId, faults, lastSaved, deleted, wiped, dbVersion,
                  dbVars, backends >>

NextPermission ==
  \/ VerifyHandle
  \/ ReconnectAttempt
  \/ ClearCache

SpecPermission == InitPermission /\ [][NextPermission]_vars

\* ------------------------------------------------ openDB() with concurrent callers
\* The database as a page finds it, before anything called openDB().
InitOpen ==
  /\ dbVersion \in 0 .. DB_VERSION
  /\ idb \in OldStores
  /\ dbVersion = 0 => idb = EmptyObject
  /\ enh = EmptyObject
  /\ leg = EmptyObject
  /\ handleStore = [enhanced |-> EmptyObject, legacy |-> EmptyObject]
  /\ permissionCache = EmptyObject
  /\ verifiedHandles = {}
  /\ NotOpened
  /\ backends = NoBackendData
  /\ libraries = << >>
  /\ isLoading = TRUE
  /\ phase = "boot"
  /\ saved = << >>
  /\ verified = << >>
  /\ idx = 1
  /\ nextId = MaxIds + 1
  /\ ops = 0
  /\ faults = 0
  /\ lastOp = Op("init")
  /\ lastSaved = EmptyObject
  /\ deleted = {}
  /\ wiped = {}

\* The open requests the browser has not settled, and the connections it opened
\* (db.ts closes a connection only in resetDatabase).
InFlight == { r \in DOMAIN openRequests :
               openRequests[r].stage \in {"pending", "blocked", "upgrading"} }
Connections == { r \in DOMAIN openRequests : openRequests[r].stage = "success" }

\* The browser serves the open requests of one database in the order they were made.
IsNext(r) == r \in InFlight /\ \A e \in InFlight : r <= e

UpgradeInProgress == "Database upgrade in progress, please try again"
FailedToOpen == "Failed to open database"

\* What the caller does with the connection as soon as openDB() has resolved:
\* saveLibrary puts its record, deleteLibrary deletes its id, each in a readwrite
\* transaction of its own; the browser runs these in the order they were created.
Transact(me, records) ==
  IF me.op = "save"
  THEN PrimaryPut(records, EnhancedLibrary(SampleLibrary(me.id)), TRUE).idb
  ELSE IF me.op = "delete"
  THEN Remove(records, me.id)
  ELSE records

\* openDB(), the synchronous body of the promise executor, for the caller c that
\* is in the call described by me.
OpenDBBody(c, me) ==
  IF db # 0 /\ ~isUpgrading
  THEN /\ callers' = [callers EXCEPT ![c] =
                        [me EXCEPT !.pc = "resolved", !.connection = db]]
       /\ idb' = Transact(me, idb)
       /\ UNCHANGED openRequests
  ELSE IF isUpgrading
  THEN /\ callers' = [callers EXCEPT ![c] = [me EXCEPT !.pc = "waiting", !.waits = 1]]
       /\ UNCHANGED << openRequests, idb >>
  ELSE /\ openRequests' = Append(openRequests, [caller |-> c, stage |-> "pending"])
       /\ callers' = [callers EXCEPT ![c] =
                        [me EXCEPT !.pc = "opening", !.request = Len(openRequests) + 1]]
       /\ UNCHANGED idb

\* The caller is not inside a call.
CanCall(c) == callers[c].op = "none" /\ callers[c].pc \in {"idle", "resolved", "rejected"}

\* openDB() called on its own, as checkDatabaseHealth does.
CallOpenDB(c) ==
  /\ CanCall(c)
  /\ ops < MaxOps
  /\ ops' = ops + 1
  /\ OpenDBBody(c, Idle)
  /\ lastOp' = [Op("openDB") EXCEPT !.id = c]
  /\ UNCHANGED << enh, leg, handleStore, permissionCache, backends, libraries,
                  isLoading,
                  phase, saved, verified, idx, nextId, faults, lastSaved, deleted, wiped,
                  dbVersion, verifiedHandles, db, isUpgrading >>

\* openDB(): the callback of setTimeout(..., 1000).
TimerFires(c) ==
  /\ callers[c].pc = "waiting"
  /\ callers' = [callers EXCEPT ![c] =
                   IF db # 0 /\ ~isUpgrading
                   THEN [@ EXCEPT !.pc = "resolved", !.connection = db]
                   ELSE [@ EXCEPT !.pc = "rejected", !.message = UpgradeInProgress]]
  /\ idb' = IF db # 0 /\ ~isUpgrading THEN Transact(callers[c], idb) ELSE idb
  /\ lastOp' = [Op("timer") EXCEPT !.id = c]
  /\ UNCHANGED << enh, leg, handleStore, permissionCache, backends, libraries,
                  isLoading,
                  phase, saved, verified, idx, nextId, ops, faults, lastSaved, deleted,
                  wiped, dbVersion, verifiedHandles, db, isUpgrading, openRequests >>

\* request.onblocked: another session holds a connection to the older database.
OnBlocked(r) ==
  /\ IsNext(r)
  /\ openRequests[r].stage = "pending"
  /\ dbVersion < DB_VERSION
  /\ isUpgrading' = FALSE
  /\ openRequests' = [openRequests EXCEPT ![r].stage = "blocked"]
  /\ lastOp' = [Op("onblocked") EXCEPT !.id = openRequests[r].caller]
  /\ UNCHANGED << idb, enh, leg, handleStore, permissionCache, backends, libraries,
                  isLoading,
                  phase, saved, verified, idx, nextId, ops, faults, lastSaved, deleted,
                  wiped, dbVersion, verifiedHandles, db, callers >>

\* request.onupgradeneeded
OnUpgradeNeeded(r) ==
  /\ IsNext(r)
  /\ openRequests[r].stage \in {"pending", "blocked"}
  /\ dbVersion < DB_VERSION
  /\ isUpgrading' = TRUE
  /\ idb' = Upgrade(idb, dbVersion)
  /\ openRequests' = [openRequests EXCEPT ![r].stage = "upgrading"]
  /\ lastOp' = [Op("onupgradeneeded") EXCEPT !.id = openRequests[r].caller,
                                              !.at = dbVersion]
  /\ UNCHANGED << enh, leg, handleStore, permissionCache, backends, libraries,
                  isLoading,
                  phase, saved, verified, idx, nextId, ops, faults, lastSaved, deleted,
                  wiped, dbVersion, verifiedHandles, db, callers >>

\* request.onsuccess
OnSuccess(r) ==
  /\ IsNext(r)
  /\ \/ openRequests[r].stage = "upgrading"
     \/ openRequests[r].stage = "pending" /\ dbVersion = DB_VERSION
  /\ db' = r
  /\ isUpgrading' = FALSE
  /\ dbVersion' = DB_VERSION
  /\ openRequests' = [openRequests EXCEPT ![r].stage = "success"]
  /\ callers' = [callers EXCEPT ![openRequests[r].caller] =
                   [@ EXCEPT !.pc = "resolved", !.connection = r]]
  /\ idb' = Transact(callers[openRequests[r].caller], idb)
  /\ lastOp' = [Op("onsuccess") EXCEPT !.id = openRequests[r].caller]
  /\ UNCHANGED << enh, leg, handleStore, permissionCache, backends, libraries,
                  isLoading,
                  phase, saved, verified, idx, nextId, ops, faults, lastSaved, deleted,
                  wiped, verifiedHandles >>

\* request.onerror
OnError(r) ==
  /\ IsNext(r)
  /\ openRequests[r].stage \in {"pending", "upgrading"}
  /\ faults < MaxFaults
  /\ faults' = faults + 1
  /\ isUpgrading' = FALSE
  /\ openRequests' = [openRequests EXCEPT ![r].stage = "error"]
  /\ callers' = [callers EXCEPT ![openRequests[r].caller] =
                   [@ EXCEPT !.pc = "rejected", !.message = FailedToOpen]]
  /\ lastOp' = [Op("onerror") EXCEPT !.id = openRequests[r].caller]
  /\ UNCHANGED << idb, enh, leg, handleStore, permissionCache, backends, libraries,
                  isLoading,
                  phase, saved, verified, idx, nextId, ops, lastSaved, deleted,
                  wiped, dbVersion, verifiedHandles, db >>

NextOpen ==
  \/ \E c \in Callers : CallOpenDB(c)
  \/ \E c \in Callers : TimerFires(c)
  \/ \E r \in DOMAIN openRequests : OnBlocked(r)
  \/ \E r \in DOMAIN openRequests : OnUpgradeNeeded(r)
  \/ \E r \in DOMAIN openRequests : OnSuccess(r)
  \/ \E r \in DOMAIN openRequests : OnError(r)

SpecOpen == InitOpen /\ [][NextOpen]_vars

\* ------------------------------------ saveLibrary and deleteLibrary that overlap
\* A page whose three stores are empty; the database may not exist yet or be of
\* an older version.
InitCalls ==
  /\ dbVersion \in 0 .. DB_VERSION
  /\ idb = EmptyObject
  /\ enh = EmptyObject
  /\ leg = EmptyObject
  /\ handleStore = [enhanced |-> EmptyObject, legacy |-> EmptyObject]
  /\ permissionCache = EmptyObject
  /\ verifiedHandles = {}
  /\ NotOpened
  /\ backends = NoBackendData
  /\ libraries = << >>
  /\ isLoading = FALSE
  /\ phase = "ready"
  /\ saved = << >>
  /\ verified = << >>
  /\ idx = 1
  /\ nextId = MaxIds + 1
  /\ ops = 0
  /\ faults = 0
  /\ lastOp = Op("init")
  /\ lastSaved = EmptyObject
  /\ deleted = {}
  /\ wiped = {}

\* saveLibrary(library) up to its first await: the two shadow namespaces are
\* written synchronously, then openDB() is entered.
StartSave(c, id) ==
  /\ CanCall(c)
  /\ ops < MaxOps
  /\ ops' = ops + 1
  /\ LET b == CreateEnhancedBackup(enh, leg, EnhancedLibrary(SampleLibrary(id)),
                                   TRUE, TRUE)
     IN /\ enh' = b.enh
        /\ leg' = b.leg
  /\ OpenDBBody(c, [Idle EXCEPT !.op = "save", !.id = id])
  /\ lastOp' = [Op("save") EXCEPT !.id = id, !.save = TRUE]
  /\ UNCHANGED << handleStore, permissionCache, backends, libraries,
                  isLoading, phase, saved,
                  verified, idx, nextId, faults, lastSaved, deleted, wiped, dbVersion,
                  verifiedHandles, db, isUpgrading >>

\* deleteLibrary(id) up to its first await: the id is removed from the two shadow
\* namespaces synchronously, then openDB() is entered.
StartDelete(c, id) ==
  /\ CanCall(c)
  /\ ops < MaxOps
  /\ ops' = ops + 1
  /\ enh' = RemoveBackup(enh, id, TRUE)
  /\ leg' = RemoveBackup(leg, id, TRUE)
  /\ deleted' = deleted \cup {id}
  /\ OpenDBBody(c, [Idle EXCEPT !.op = "delete", !.id = id])
  /\ lastOp' = [Op("delete") EXCEPT !.id = id]
  /\ UNCHANGED << handleStore, permissionCache, backends, libraries,
                  isLoading, phase, saved,
                  verified, idx, nextId, faults, lastSaved, wiped, dbVersion,
                  verifiedHandles, db, isUpgrading >>

\* saveLibrary / deleteLibrary returns: after its transaction has completed, or
\* from the catch block that warns when openDB() rejected.
Return(c) ==
  /\ callers[c].op # "none"
  /\ callers[c].pc \in {"resolved", "rejected"}
  /\ callers' = [callers EXCEPT ![c] = Idle]
  /\ faults' = IF callers[c].pc = "rejected" /\ callers[c].message = UpgradeInProgress
               THEN faults + 1 ELSE faults
  /\ lastSaved' = IF callers[c].op = "save" /\ callers[c].pc = "resolved"
                  THEN Put(lastSaved, callers[c].id, SampleLibrary(callers[c].id))
                  ELSE lastSaved
  /\ lastOp' = [Op("return") EXCEPT !.id = callers[c].id,
                                    !.result = callers[c].pc]
  /\ UNCHANGED << idb, enh, leg, handleStore, permissionCache, backends, libraries,
                  isLoading,
                  phase, saved, verified, idx, nextId, ops, deleted, wiped, dbVersion,
                  verifiedHandles, db, isUpgrading, openRequests >>

NextCalls ==
  \/ \E c \in Callers : CallOpenDB(c)
  \/ \E c \in Callers, id \in 1 .. MaxIds : StartSave(c, id)
  \/ \E c \in Callers, id \in 1 .. MaxIds : StartDelete(c, id)
  \/ \E c \in Callers : Return(c)
  \/ \E c \in Callers : TimerFires(c)
  \/ \E r \in DOMAIN openRequests : OnBlocked(r)
  \/ \E r \in DOMAIN openRequests : OnUpgradeNeeded(r)
  \/ \E r \in DOMAIN openRequests : OnSuccess(r)
  \/ \E r \in DOMAIN openRequests : OnError(r)

SpecCalls == InitCalls /\ [][NextCalls]_vars

\* ------------------------------------------------------- HybridStorageManager
Keys == {"k1", "k2"}
Data == {"a", "b"}

\* backend.save(key, data) of every backend: whether it returns true.
SaveOutcomes == [1 .. MaxBackends -> BOOLEAN]

\* The first backend after the primary one whose save returns true, 0 if none.
FirstFallback(ok) ==
  IF \E i \in 2 .. MaxBackends : ok[i]
  THEN CHOOSE i \in 2 .. MaxBackends : ok[i] /\ \A j \in 2 .. (i - 1) : ~ok[j]
  ELSE 0

\* HybridStorageManager.save(key, data): the primary backend first and, when it
\* returns true, a save to every other backend whose outcome is ignored;
\* otherwise the other backends in order until one returns true.
HybridSave(bs, key, data, ok) ==
  IF ok[1]
  THEN [backends |-> [i \in DOMAIN bs |-> IF ok[i] THEN Put(bs[i], key, data) ELSE bs[i]],
        returned |-> TRUE]
  ELSE LET f == FirstFallback(ok) IN
       IF f = 0
       THEN [backends |-> bs, returned |-> FALSE]
       ELSE [backends |-> [i \in DOMAIN bs |->
                             IF i = f THEN Put(bs[i], key, data) ELSE bs[i]],
             returned |-> TRUE]

\* HybridStorageManager.load(key): the value of the first backend, in order of
\* preference, whose load does not return null.
RECURSIVE HybridLoadFrom(_, _, _)
HybridLoadFrom(bs, key, i) ==
  IF i > Len(bs) THEN "null"
  ELSE IF key \in DOMAIN bs[i] THEN bs[i][key]
  ELSE HybridLoadFrom(bs, key, i + 1)

HybridLoad(bs, key) == HybridLoadFrom(bs, key, 1)

InitHybrid ==
  /\ idb = EmptyObject
  /\ enh = EmptyObject
  /\ leg = EmptyObject
  /\ handleStore = [enhanced |-> EmptyObject, legacy |-> EmptyObject]
  /\ permissionCache = EmptyObject
  /\ verifiedHandles = {}
  /\ NotOpened
  /\ backends = NoBackendData
  /\ libraries = << >>
  /\ isLoading = FALSE
  /\ phase = "ready"
  /\ saved = << >>
  /\ verified = << >>
  /\ idx = 1
  /\ nextId = MaxIds + 1
  /\ ops = 0
  /\ faults = 0
  /\ lastOp = Op("init")
  /\ lastSaved = EmptyObject
  /\ deleted = {}
  /\ wiped = {}
  /\ dbVersion = DB_VERSION

\* await hybridStorage.save(key, data)
SaveHybrid ==
  /\ ops < MaxOps
  /\ ops' = ops + 1
  /\ \E key \in Keys, data \in Data, ok \in SaveOutcomes :
       LET s == HybridSave(backends, key, data, ok) IN
       /\ backends' = s.backends
       /\ lastOp' = [Op("hybridSave") EXCEPT !.key = key, !.data = data,
                                             !.returned = s.returned]
  /\ UNCHANGED << idb, enh, leg, handleStore, permissionCache, libraries, isLoading,
                  phase, saved, verified, idx, nextId, faults, lastSaved, deleted, wiped,
                  dbVersion, verifiedHandles, dbVars >>

\* await hybridStorage.load(key)
LoadHybrid ==
  /\ ops < MaxOps
  /\ ops' = ops + 1
  /\ \E key \in Keys :
       lastOp' = [Op("hybridLoad") EXCEPT !.key = key,
                                         !.data = HybridLoad(backends, key)]
  /\ UNCHANGED << idb, enh, leg, handleStore, permissionCache, libraries, isLoading,
                  phase, saved, verified, idx, nextId, faults, lastSaved, deleted, wiped,
                  dbVersion, verifiedHandles, dbVars, backends >>

NextHybrid ==
  \/ SaveHybrid
  \/ LoadHybrid

SpecHybrid == InitHybrid /\ [][NextHybrid]_vars

\* ================================================================= claims
\* What the last operation was.
IsLoadOp == lastOp.op \in {"health", "get", "reconcile", "finish"}
IsReconcile == lastOp.op = "reconcile"
Reconciled == verified[lastOp.at]
Loaded == lastOp.loaded[1]

\* The records getLibraries() returned that carry the id.
ReturnedWith(id) == { i \in DOMAIN saved : saved[i].id = id }

\* C1 (as claimed): once saveLibrary(L) has completed, the next getLibraries()
\* returns a record with L's id, L's name and L's file names, in order.
C1_RoundTrip ==
  lastOp.op = "get" =>
    \A id \in DOMAIN lastSaved :
      \E i \in ReturnedWith(id) :
        /\ saved[i].name = lastSaved[id].library.name
        /\ FileNames(saved[i]) = FileNames(lastSaved[id].library)

C3_MetadataKept ==
  \A id \in DOMAIN lastSaved \cap DOMAIN idb :
    idb[id].metadata.persistence.saveCount >= 2 =>
      /\ lastSaved[id].metaSet \subseteq DOMAIN idb[id].metadata
      /\ lastSaved[id].persistenceSet \subseteq DOMAIN idb[id].metadata.persistence

\* C4: a loaded library whose verifyPermission(handle, false) answers denied is
\* reconciled with needsReconnection = true and exactly the files of the loaded
\* record, whatever the directory would have listed.
C4_VerifyGatesEnumerate ==
  IsReconcile /\ lastOp.verify = "denied" =>
    /\ Reconciled.id = Loaded.id
    /\ Reconciled.metadata.needsReconnection = TRUE
    /\ Reconciled.files = Loaded.files

C4_Witness ==
  /\ IsReconcile
  /\ lastOp.verify = "denied"
  /\ Len(lastOp.scan) > 0
  /\ FileNames([files |-> lastOp.scan]) # FileNames(Loaded)
  /\ Reconciled.files = Loaded.files

\* C5: no step of the startup load invokes requestPermission or
\* showDirectoryPicker, and a library whose handle is absent or denied is
\* reconciled with needsReconnection = true.
C5_NoPromptAtLoad ==
  /\ IsLoadOp => ~lastOp.prompted
  /\ IsReconcile /\ (Loaded.directoryHandle \notin Dirs \/ lastOp.verify = "denied") =>
       Reconciled.metadata.needsReconnection = TRUE

C5_Witness ==
  /\ IsReconcile
  /\ lastOp.verify = "denied"
  /\ ~lastOp.prompted
  /\ Reconciled.metadata.needsReconnection = TRUE
  /\ Reconciled.files = Loaded.files

\* C6 (as claimed): at the startup load every library whose handle verifies as
\* granted and whose scan lists at least one PDF is restored: its files are the
\* scan result, needsReconnection is false and lastRestored is stamped.
C6_RestoredOnGranted ==
  IsReconcile /\ lastOp.grantable /\ Len(lastOp.scan) > 0 =>
    /\ Reconciled.files = lastOp.scan
    /\ Reconciled.metadata.needsReconnection = FALSE
    /\ "lastRestored" \in DOMAIN Reconciled.metadata

\* C7 (as claimed): when a host call of the verification or of the enumeration
\* throws during the startup load, the reconciled library carries hasErrors = true,
\* errorMessage and lastError, and is not marked as needing reconnection by it.
C7_ErroredNotReconnect ==
  IsReconcile /\ lastOp.threw =>
    /\ {"hasErrors", "errorMessage", "lastError"} \subseteq DOMAIN Reconciled.metadata
    /\ Reconciled.metadata.hasErrors = TRUE
    /\ ("needsReconnection" \in DOMAIN Loaded.metadata
          => Reconciled.metadata.needsReconnection = Loaded.metadata.needsReconnection)

\* C8 (as claimed): once deleteLibrary(X) has completed, X is in none of the three
\* stores, and no later getLibraries() returns a record with id X unless X was
\* saved again.
C8_DeleteEverywhere ==
  /\ lastOp.op = "delete" /\ lastOp.result = "ok" =>
       lastOp.id \notin DOMAIN idb \cup DOMAIN enh \cup DOMAIN leg
  /\ lastOp.op = "get" => \A id \in deleted : ReturnedWith(id) = {}

\* C9 (as claimed): saveLibrary succeeds for its caller exactly when the write to
\* the Primary Store succeeded.
C9_PrimaryOutcomeReported ==
  lastOp.save => (lastOp.result = "ok" <=> lastOp.pOk)

SaveWarning == "IndexedDB save failed, using localStorage only"

\* C9 (amended): saveLibrary succeeds for its caller whether or not the write to
\* the Primary Store succeeded; a failed put or open is logged as the warning
\* "IndexedDB save failed, using localStorage only" and nothing else tells it.
C9_PrimaryFailureLogged ==
  lastOp.save =>
    /\ lastOp.result = "ok"
    /\ (SaveWarning \in lastOp.logs <=> ~lastOp.pOk)

C9_Witness ==
  /\ lastOp.save
  /\ ~lastOp.pOk
  /\ lastOp.result = "ok"
  /\ SaveWarning \in lastOp.logs
  /\ lastOp.id \notin DOMAIN idb
  /\ lastOp.id \in DOMAIN enh

ShadowErrors == {"Failed to create enhanced backup", "Failed to create backup"}

\* C10: when a shadow write fails while the put into the Primary Store goes
\* through, saveLibrary still succeeds, the Primary Store holds the saved record,
\* and the failure shows only as a log entry.
C10_ShadowFailureLogged ==
  lastOp.save /\ lastOp.pOk /\ ~(lastOp.eOk /\ lastOp.lOk) =>
    /\ lastOp.result = "ok"
    /\ lastOp.id \in DOMAIN idb
    /\ idb[lastOp.id].name = lastSaved[lastOp.id].library.name
    /\ FileNames(idb[lastOp.id]) = FileNames(lastSaved[lastOp.id].library)
    /\ lastOp.logs # {}
    /\ lastOp.logs \subseteq ShadowErrors

C10_Witness ==
  /\ lastOp.save /\ lastOp.pOk /\ lastOp.eOk /\ ~lastOp.lOk
  /\ lastOp.result = "ok"
  /\ lastOp.id \in DOMAIN idb \cap DOMAIN enh
  /\ lastOp.id \notin DOMAIN leg
  /\ lastOp.logs = {"Failed to create backup"}

\* C11: when the read of the Primary Store at startup fails with the corruption
\* signal, the startup sequence attempts forceRecreateDatabase, reads the
\* libraries again when the recreation went through, and finishes loading, with an
\* empty list when the recreation failed.
C11_CorruptionRecovery ==
  lastOp.op = "get" /\ lastOp.signal =>
    /\ lastOp.recreated
    /\ phase = "ready"
    /\ ~isLoading
    /\ (~lastOp.retried => libraries = << >>)

\* loadLibraries is at a step that it takes by itself: the health check, the read,
\* the reconciliation of the next saved library, or the end of the loop.
LoadCanStep ==
  \/ phase = "boot"
  \/ phase = "get"
  \/ phase = "reconcile" /\ idx <= Len(saved)
  \/ phase = "reconcile" /\ idx > Len(saved)

\* C12: whatever the Primary Store, the shadow stores and the verifications answer,
\* loadLibraries is never left waiting: as long as it has not finished (isLoading
\* is still true), its next step can be taken, so that it ends with isLoading =
\* false and a library list set.
C12_StartupProceeds ==
  isLoading => LoadCanStep

\* The shadow namespace getLibraries() reads from when the Primary Store gave
\* nothing: the enhanced one if it is readable and not empty, else the legacy one.
ShadowRead(eOk, lOk) ==
  IF eOk /\ DOMAIN enh # {} THEN enh
  ELSE IF lOk THEN leg
  ELSE EmptyObject

\* C13: when the Primary Store cannot be opened or read, getLibraries() returns,
\* without throwing, exactly the libraries recorded in the shadow store (same ids,
\* names and files), and returns an empty sequence only when neither shadow
\* namespace is readable with a library in it.
C13_FallsBackToShadow ==
  lastOp.op = "get" /\ ~lastOp.pOk =>
    LET shadow == ShadowRead(lastOp.eOk, lastOp.lOk) IN
    /\ lastOp.result = "ok"
    /\ { saved[i].id : i \in DOMAIN saved } = DOMAIN shadow
    /\ Len(saved) = Cardinality(DOMAIN shadow)
    /\ \A i \in DOMAIN saved :
         /\ saved[i].name = shadow[saved[i].id].name
         /\ FileNames(saved[i]) = FileNames(shadow[saved[i].id])
    /\ (saved = << >> =>
          /\ (~lastOp.eOk \/ DOMAIN enh = {})
          /\ (~lastOp.lOk \/ DOMAIN leg = {}))

C13_Witness ==
  /\ lastOp.op = "get"
  /\ ~lastOp.pOk
  /\ lastOp.source = "enhanced"
  /\ Len(saved) > 0
  /\ DOMAIN idb # {}

Recreates ==
  \/ lastOp'.op = "reset"
  \/ lastOp'.op \in {"health", "get"} /\ lastOp'.recreated

\* C15: a step that runs resetDatabase or forceRecreateDatabase, whether it
\* succeeds or fails, leaves the enhanced and the legacy shadow namespace exactly
\* as they were.
C15_ShadowUntouched ==
  [][Recreates => enh' = enh /\ leg' = leg]_vars

C15_Witness ==
  /\ lastOp.op = "reset"
  /\ lastOp.result = "ok"
  /\ DOMAIN idb = {}
  /\ DOMAIN enh # {}
  /\ DOMAIN leg # {}

\* C16: once a confirmed handleResetDatabase has completed, the library list is
\* empty, and a later startup load returns no library that was stored before the
\* reset (ids are never given out twice, so none of them has been added again).
C16_ResetRemovesAll ==
  /\ lastOp.op = "reset" /\ lastOp.result = "ok" => libraries = << >>
  /\ lastOp.op = "get" => \A id \in wiped : ReturnedWith(id) = {}

\* The user picked a directory, the elevated permission was granted and the scan
\* found at least one PDF.
PickedGrantedScanned ==
  /\ lastOp.pick \in Dirs
  /\ lastOp.granted
  /\ Len(lastOp.scan) >= 1

\* The library reconnectLibrary returned, which handleReconnectLibrary passed to
\* saveLibrary.
Reconnected == lastSaved[lastOp.id].library

\* C17: when the user picks a directory, verifyPermission(handle, true) is granted
\* and the scan returns one or more PDFs, reconnectLibrary returns the library
\* with the same id, the scanned files, needsReconnection = false, lastReconnected
\* stamped, and reconnectionCount one above its previous value (0 if absent).
C17_ReconnectSuccess ==
  lastOp.op = "reconnect" /\ PickedGrantedScanned =>
    /\ lastOp.save
    /\ lastOp.id = Loaded.id
    /\ lastOp.id \in DOMAIN lastSaved
    /\ Reconnected.id = Loaded.id
    /\ Reconnected.name = Loaded.name
    /\ Reconnected.files = lastOp.scan
    /\ Reconnected.directoryHandle = lastOp.pick
    /\ Reconnected.metadata.needsReconnection = FALSE
    /\ "lastReconnected" \in DOMAIN Reconnected.metadata
    /\ Reconnected.metadata.lastReconnected = TS
    /\ "reconnectionCount" \in DOMAIN Reconnected.metadata
    /\ Reconnected.metadata.reconnectionCount =
         (IF "reconnectionCount" \in DOMAIN Loaded.metadata
          THEN Loaded.metadata.reconnectionCount ELSE 0) + 1

C17_Witness ==
  /\ lastOp.op = "reconnect"
  /\ PickedGrantedScanned
  /\ lastOp.save
  /\ "reconnectionCount" \in DOMAIN Loaded.metadata
  /\ Loaded.metadata.reconnectionCount = 1
  /\ Reconnected.metadata.reconnectionCount = 2
  /\ \E i \in DOMAIN libraries :
       libraries[i].id = lastOp.id /\ libraries[i] = Reconnected

\* The step leaves the in-memory list, the Primary Store, both shadow namespaces
\* and the stored handle metadata as they were.
NothingWritten ==
  /\ libraries' = libraries
  /\ idb' = idb
  /\ enh' = enh
  /\ leg' = leg
  /\ handleStore' = handleStore

\* C18: when the user dismisses the directory picker during reconnect, the
\* in-memory library list, the Primary Store, both shadow namespaces and the stored
\* handle metadata are unchanged, and the library is still in the list as it was
\* (still in NeedsReconnection if it was).
C18_CancelChangesNothing ==
  [][lastOp'.op = "reconnect" /\ lastOp'.pick = "AbortError" =>
       /\ NothingWritten
       /\ lastOp'.result = "cancelled"
       /\ \E i \in DOMAIN libraries' : libraries'[i] = lastOp'.loaded[1]]_vars

C18_Witness ==
  /\ lastOp.op = "reconnect"
  /\ lastOp.pick = "AbortError"
  /\ lastOp.result = "cancelled"
  /\ Loaded.metadata.needsReconnection
  /\ \E i \in DOMAIN libraries : libraries[i] = Loaded
  /\ lastOp.id \in DOMAIN idb \cap DOMAIN enh \cap DOMAIN leg
  /\ lastOp.id \in DOMAIN handleStore.enhanced
  /\ ~isLoading

\* C19: when reconnect fails because the chosen directory holds zero PDFs or
\* because the elevated permission is denied, an error is reported to the user,
\* nothing is written to the list, the Primary Store, the shadow namespaces or the
\* handle metadata, and the library stays in the list as it was.
C19_FailureChangesNothing ==
  [][/\ lastOp'.op = "reconnect"
     /\ lastOp'.pick \in Dirs
     /\ (~lastOp'.granted \/ Len(lastOp'.scan) = 0)
     => /\ NothingWritten
        /\ lastOp'.result = "throw"
        /\ lastOp'.alert = "error"
        /\ ~lastOp'.save
        /\ \E i \in DOMAIN libraries' : libraries'[i] = lastOp'.loaded[1]]_vars

C19_Witness ==
  /\ lastOp.op = "reconnect"
  /\ lastOp.pick \in Dirs
  /\ lastOp.granted
  /\ Len(lastOp.scan) = 0
  /\ lastOp.alert = "error"
  /\ Loaded.metadata.needsReconnection
  /\ \E i \in DOMAIN libraries : libraries[i] = Loaded
  /\ lastOp.id \in DOMAIN idb

\* C20: when the directory chosen in addLibrary yields zero matching files,
\* createLibraryFromDirectory fails, an error is shown, no library is added to the
\* in-memory list, no id is used up, and the Primary Store, the shadow namespaces
\* and the handle-metadata storage stay as they were.
C20_EmptyDirectoryRejected ==
  [][/\ lastOp'.op = "add"
     /\ lastOp'.pick \in Dirs
     /\ lastOp'.granted
     /\ Len(lastOp'.scan) = 0
     => /\ NothingWritten
        /\ nextId' = nextId
        /\ lastOp'.result = "throw"
        /\ lastOp'.alert = "error"
        /\ ~lastOp'.save]_vars

C20_Witness ==
  /\ lastOp.op = "add"
  /\ lastOp.pick \in Dirs
  /\ lastOp.granted
  /\ Len(lastOp.scan) = 0
  /\ lastOp.result = "throw"
  /\ lastOp.alert = "error"
  /\ libraries = << >>
  /\ DOMAIN idb = {} /\ DOMAIN enh = {} /\ DOMAIN leg = {}
  /\ DOMAIN handleStore.enhanced = {} /\ DOMAIN handleStore.legacy = {}

\* The entries directoryHandle.values() hands out before the iteration ends or
\* throws.
Enumerated(listing) ==
  IF listing.failAt = 0 THEN listing.entries
  ELSE SubSeq(listing.entries, 1, listing.failAt - 1)

\* A regular file whose name ends in '.pdf' in any case and whose getFile()
\* succeeds.
IsReadablePdf(e) ==
  /\ e.kind = "file"
  /\ e.name \in {"a.pdf", "B.PDF", "u.pdf", "sub.pdf"}
  /\ e.readable

\* The names of the entries of a listing that scanDirectory has to return.
PdfNames(listing) ==
  LET kept == SelectSeq(Enumerated(listing), IsReadablePdf)
  IN [i \in DOMAIN kept |-> kept[i].name]

\* C21: scanDirectory returns exactly the enumerated entries that are regular
\* files, named *.pdf in any case, and readable, in enumeration order (an
\* unreadable entry is left out and the scan goes on), and a library created from
\* the scan has these files and metadata.fileCount equal to their number.
C21_EnumerationResult ==
  /\ lastOp.op \in {"add", "reconnect", "reconcile"} =>
       [i \in DOMAIN lastOp.scan |-> lastOp.scan[i].name] = PdfNames(lastOp.listing)
  /\ lastOp.op = "add" /\ lastOp.save =>
       /\ FileNames(lastSaved[lastOp.id].library) = PdfNames(lastOp.listing)
       /\ lastSaved[lastOp.id].library.metadata.fileCount
            = Len(PdfNames(lastOp.listing))

C21_Witness ==
  /\ lastOp.op = "add"
  /\ lastOp.save
  /\ Len(lastOp.listing.entries) = 5
  /\ \E k \in DOMAIN lastOp.listing.entries :
       /\ ~lastOp.listing.entries[k].readable
       /\ lastOp.listing.entries[k].name = "u.pdf"
  /\ FileNames(lastSaved[lastOp.id].library) = << "a.pdf", "B.PDF" >>
  /\ lastSaved[lastOp.id].library.metadata.fileCount = 2

\* The user dismissed the directory picker or the permission prompt.
Cancelled ==
  \/ lastOp.pick = "AbortError"
  \/ lastOp.answer = "dismissed"

\* C22: in add library and in reconnect library, a directory picker or a
\* permission prompt dismissed by the user shows no error dialog and ends as a
\* cancellation, not as a failure.
C22_CancelNotAnError ==
  lastOp.op \in {"add", "reconnect"} /\ Cancelled =>
    /\ lastOp.alert = "none"
    /\ lastOp.result = "cancelled"

\* C23: a step in which no shadow write fails leaves an entry for the saved id in
\* both the enhanced and the legacy namespace if it is a saveLibrary, and keeps the
\* two namespaces on the same set of ids if they were (they are at the start), so
\* that after any sequence of saves and deletes without shadow failure they hold
\* the same ids.
C23_BothNamespacesWritten ==
  [][lastOp'.eOk /\ lastOp'.lOk =>
       /\ (lastOp'.save => lastOp'.id \in DOMAIN enh' \cap DOMAIN leg')
       /\ (DOMAIN enh = DOMAIN leg => DOMAIN enh' = DOMAIN leg')]_vars

C23_Witness ==
  /\ lastOp.save
  /\ lastOp.eOk /\ lastOp.lOk
  /\ ~lastOp.pOk
  /\ lastOp.id \in DOMAIN enh \cap DOMAIN leg
  /\ lastOp.id \notin DOMAIN idb
  /\ DOMAIN enh = DOMAIN leg
  /\ Cardinality(DOMAIN enh) = 2

\* The ids of the libraries getLibraries() returned.
ReturnedIds == { saved[i].id : i \in DOMAIN saved }

\* getLibraries() answered from the shadow, with both namespaces readable.
ReadFromShadow ==
  /\ lastOp.op = "get"
  /\ lastOp.source \in {"enhanced", "legacy"}
  /\ lastOp.eOk
  /\ lastOp.lOk

\* The returned record comes from the enhanced namespace: getEnhancedBackupLibraries
\* marks it restoredFromBackup, getBackupLibraries marks restoredFromLegacyBackup.
FromEnhanced(lib) == "restoredFromBackup" \in DOMAIN lib.metadata
FromLegacy(lib) == "restoredFromLegacyBackup" \in DOMAIN lib.metadata

\* C24 (as claimed): a read from the shadow falls back id by id: every id of either
\* namespace is returned, from the enhanced namespace if it has an entry for the
\* id, and from the legacy namespace if and only if it has none.
C24_FallbackPerId ==
  ReadFromShadow =>
    /\ ReturnedIds = DOMAIN enh \cup DOMAIN leg
    /\ \A i \in DOMAIN saved :
         /\ saved[i].id \in DOMAIN enh => FromEnhanced(saved[i])
         /\ FromLegacy(saved[i]) <=> saved[i].id \notin DOMAIN enh

\* C24 (as the code has it): a read from the shadow falls back by namespace: if
\* the enhanced namespace holds any entry, exactly its entries are returned and
\* the legacy namespace is not used, whatever ids it holds; the legacy entries are
\* returned if and only if the enhanced namespace holds none.
C24_FallbackPerNamespace ==
  ReadFromShadow =>
    /\ DOMAIN enh # {} =>
         /\ ReturnedIds = DOMAIN enh
         /\ \A i \in DOMAIN saved : FromEnhanced(saved[i]) /\ ~FromLegacy(saved[i])
    /\ DOMAIN enh = {} =>
         /\ ReturnedIds = DOMAIN leg
         /\ \A i \in DOMAIN saved : FromLegacy(saved[i]) /\ ~FromEnhanced(saved[i])
    /\ Len(saved) = Cardinality(ReturnedIds)

C24_Witness ==
  /\ ReadFromShadow
  /\ DOMAIN enh # {}
  /\ DOMAIN leg \ DOMAIN enh # {}
  /\ ReturnedIds = DOMAIN enh

\* The ids of a sequence of libraries, in order.
IdsOf(libs) == [i \in DOMAIN libs |-> libs[i].id]

C26_HealthCheckNeverThrows ==
  lastOp.op = "health" /\ lastOp.open # "blocked" =>
    /\ ~lastOp.threw
    /\ phase = "get"
    /\ isLoading
    /\ lastOp.healthy <=> (lastOp.open = "success" /\ lastOp.probe = "success")
    /\ lastOp.recreated <=> ~lastOp.healthy

C26_Witness ==
  /\ lastOp.op = "health"
  /\ lastOp.open = "success"
  /\ lastOp.probe = "transactionThrows"
  /\ ~lastOp.healthy
  /\ ~lastOp.threw
  /\ phase = "get"

C28_EmptyScanNeedsReconnection ==
  IsReconcile /\ lastOp.grantable /\ Len(lastOp.scan) = 0 =>
    /\ Reconciled.id = Loaded.id
    /\ Reconciled.metadata.needsReconnection = TRUE
    /\ Reconciled.files = Loaded.files
    /\ Reconciled.directoryHandle = Loaded.directoryHandle

C28_Witness ==
  /\ IsReconcile
  /\ lastOp.verify = "granted"
  /\ lastOp.grantable
  /\ Len(lastOp.scan) = 0
  /\ Len(Loaded.files) > 0
  /\ ~Loaded.metadata.needsReconnection
  /\ Reconciled.files = Loaded.files
  /\ Reconciled.metadata.needsReconnection

\* C29: whenever the Primary Store opens and answers getAll without error, also
\* with zero records, getLibraries() returns exactly the records of the Primary
\* Store and reads neither shadow namespace.
C29_ShadowOnlyWhenUnavailable ==
  lastOp.op = "get" /\ lastOp.pOk =>
    /\ lastOp.source = "indexedDB"
    /\ ReturnedIds = DOMAIN idb
    /\ Len(saved) = Cardinality(DOMAIN idb)
    /\ \A i \in DOMAIN saved : ~FromEnhanced(saved[i]) /\ ~FromLegacy(saved[i])

\* The step is a successful reconnectLibrary, started by the user, for the library
\* with this id.
ReconnectedNow(id) ==
  /\ lastOp'.op = "reconnect"
  /\ lastOp'.id = id
  /\ lastOp'.save
  /\ PickedGrantedScanned'

\* C30: once the startup load has finished, a library of the list goes from
\* needsReconnection = true to needsReconnection = false only in a step that is a
\* successful user-initiated reconnectLibrary for that library; no add, delete,
\* reset, cleanup or reconnect of another library clears the flag.
C30_OnlyReconnectClears ==
  [][phase = "ready" /\ phase' = "ready" =>
       \A i \in DOMAIN libraries : \A j \in DOMAIN libraries' :
         /\ libraries'[j].id = libraries[i].id
         /\ libraries[i].metadata.needsReconnection
         /\ ~libraries'[j].metadata.needsReconnection
         => ReconnectedNow(libraries[i].id)]_vars

C30_Witness ==
  /\ lastOp.op = "reconnect"
  /\ lastOp.save
  /\ Loaded.metadata.needsReconnection
  /\ Len(libraries) = 1
  /\ libraries[1].id = lastOp.id
  /\ ~libraries[1].metadata.needsReconnection
  /\ phase = "ready"

\* Every record of an object store or shadow namespace sits under its own id.
KeyedById(store) == \A k \in DOMAIN store : store[k].id = k

\* C31: a library's id is never reassigned. The stores keep each record under its
\* own id; getLibraries returns only ids that a store holds; the reconciliation
\* of the startup load appends an entry with the id of the library it handles;
\* an add leaves the ids of the list alone or appends the new id; a reconnect,
\* whichever directory is picked, leaves the ids of the list exactly as they
\* were, and the library it puts in the list carries the id of the library that
\* was reconnected.
C31_IdNeverReassigned ==
  [][/\ KeyedById(idb') /\ KeyedById(enh') /\ KeyedById(leg')
     /\ lastOp'.op = "get" /\ phase' = "reconcile" =>
          \A i \in DOMAIN saved' :
            saved'[i].id \in DOMAIN idb \cup DOMAIN enh \cup DOMAIN leg
     /\ lastOp'.op = "reconcile" =>
          /\ lastOp'.id = saved[idx].id
          /\ verified'[Len(verified')].id = saved[idx].id
          /\ SubSeq(IdsOf(verified'), 1, Len(verified)) = IdsOf(verified)
     /\ lastOp'.op = "add" =>
          IdsOf(libraries') \in {IdsOf(libraries), Append(IdsOf(libraries), nextId)}
     /\ lastOp'.op = "reconnect" =>
          /\ IdsOf(libraries') = IdsOf(libraries)
          /\ lastOp'.save /\ lastOp'.result = "ok" =>
               \E j \in DOMAIN libraries' :
                 /\ libraries[j].id = lastOp'.id
                 /\ libraries'[j].id = lastOp'.id
                 /\ libraries'[j].directoryHandle = lastOp'.pick]_vars

\* A reconnect to another directory than the one the library had went through.
C31_Witness ==
  /\ lastOp.op = "reconnect"
  /\ lastOp.save
  /\ lastOp.result = "ok"
  /\ Loaded.directoryHandle \in Dirs
  /\ lastOp.pick \in Dirs
  /\ lastOp.pick # Loaded.directoryHandle
  /\ \E j \in DOMAIN libraries :
       /\ libraries[j].id = Loaded.id
       /\ libraries[j].directoryHandle = lastOp.pick

\* C32: verifyPermission answers from its cache only for a handle that was
\* itself given to verifyPermission, with the same request flag, since the cache
\* was last empty; what was computed for one directory is never the answer for
\* another directory.
C32_CacheKeyedByHandle ==
  [][lastOp'.op \in {"verify", "reconnectLibrary"} /\ lastOp'.cached =>
       << lastOp'.pick, lastOp'.request >> \in verifiedHandles]_vars

\* The reconnect attempt recorded in lastOp went as far as verifyPermission and
\* failed there because verifyPermission(handle, true) returned false.
DeniedReconnect ==
  /\ lastOp.op = "reconnectLibrary"
  /\ lastOp.result = "throw"
  /\ ~lastOp.granted

\* C38: after a reconnect attempt that failed on a denied elevation, the next
\* reconnect attempt of the session that picks a directory of the same name, for
\* which the host would now give the permission and in which there are PDF
\* files, does not answer from the cache and succeeds.
C38_DeniedDoesNotBlock ==
  [][/\ DeniedReconnect
     /\ lastOp'.op = "reconnectLibrary"
     /\ ops' = ops + 1
     /\ DirName(lastOp'.pick) = DirName(lastOp.pick)
     /\ lastOp'.hostGrants
     /\ Len(lastOp'.scan) > 0
     => /\ ~lastOp'.cached
        /\ lastOp'.result = "ok"]_vars

\* C33: whatever the interleaving of the callers of openDB(), at most one
\* connection to the Primary Store is open at a time and at most one open
\* request is in flight: a caller that arrives while an open is in flight does
\* not start a second one.
C33_OneSharedConnection ==
  /\ Cardinality(Connections) <= 1
  /\ Cardinality(InFlight) <= 1

\* C34: a caller of openDB() that arrives during a schema upgrade is suspended,
\* is not rejected when its first wait elapses, and when it proceeds it does so
\* on the shared connection.
C34_WaitsOutUpgrade ==
  [][\A c \in Callers :
       callers[c].pc = "waiting" =>
         /\ callers[c].waits = 1 => callers'[c].pc # "rejected"
         /\ callers'[c].pc = "resolved" => callers'[c].connection = db' /\ db' # 0]_vars

\* C35: when the open request of a caller of openDB() is blocked by another
\* session, the caller gets an outcome of its own that says it may retry: it is
\* not left waiting, and the outcome is neither that of a failed open nor that of
\* an upgrade in progress.
C35_BlockedIsDistinctOutcome ==
  \A r \in DOMAIN openRequests :
    openRequests[r].stage = "blocked" =>
      /\ callers[openRequests[r].caller].pc = "rejected"
      /\ callers[openRequests[r].caller].message = "blocked, retry"

\* The record after has every field of the record before with its old value, the
\* fields of metadata included.
KeepsFields(before, after) ==
  /\ \A f \in DOMAIN before \ {"metadata"} : f \in DOMAIN after /\ after[f] = before[f]
  /\ "metadata" \in DOMAIN before =>
       /\ "metadata" \in DOMAIN after
       /\ \A f \in DOMAIN before.metadata :
            f \in DOMAIN after.metadata /\ after.metadata[f] = before.metadata[f]

\* C36: openDB() on a store of an older version visits every record: after it,
\* each record has createdAt, lastAccessed and metadata when the store was older
\* than version 2, has metadata and metadata.persistence when it was older than
\* version 3, and has kept the value of every field it had.
C36_MigrationBackfills ==
  [][lastOp'.op = "open" /\ dbVersion < DB_VERSION =>
       /\ DOMAIN idb' = DOMAIN idb
       /\ \A id \in DOMAIN idb :
            /\ KeepsFields(idb[id], idb'[id])
            /\ dbVersion < 2 =>
                 {"createdAt", "lastAccessed", "metadata"} \subseteq DOMAIN idb'[id]
            /\ dbVersion < 3 =>
                 /\ "metadata" \in DOMAIN idb'[id]
                 /\ "persistence" \in DOMAIN idb'[id].metadata]_vars

\* Every saveLibrary and deleteLibrary that was started has returned.
Quiescent == \A c \in Callers : callers[c].op = "none"

\* C37: in a run without a failed storage operation, once every started
\* saveLibrary and deleteLibrary has returned, the Primary Store and the two
\* shadow namespaces hold the same ids, and every id that was saved and never
\* deleted is in all three.
C37_StoresAgree ==
  faults = 0 /\ Quiescent =>
    /\ DOMAIN idb = DOMAIN enh
    /\ DOMAIN enh = DOMAIN leg
    /\ \A id \in DOMAIN lastSaved \ deleted :
         id \in DOMAIN idb /\ id \in DOMAIN enh /\ id \in DOMAIN leg

\* C39: when save(key, d) of the HybridStorageManager returned true, the load of
\* that key that comes next returns d, whichever backend took the write.
C39_ReadYourWrite ==
  [][/\ lastOp.op = "hybridSave"
     /\ lastOp.returned = TRUE
     /\ lastOp'.op = "hybridLoad"
     /\ ops' = ops + 1
     /\ lastOp'.key = lastOp.key
     => lastOp'.data = lastOp.data]_vars

====
